---------------------------- MODULE Spec2Model ----------------------------
(***************************************************************************)
(* Verification model of the FluidSynth reverb core: the shared delay      *)
(* line / allpass / comb building blocks (fluid_rev_filters.h), the        *)
(* Freeverb, Lexverb and Dattorro models and the factory / C entry points  *)
(* (fluid_rev.cpp).                                                        *)
(*                                                                         *)
(* Numbers.  A sample_t / fluid_real_t value is an integer count of        *)
(* 1/Unit: 1.0 is Unit, 0.5 is Unit \div 2.  Sums and differences are      *)
(* exact; a product or quotient is rounded to the nearest representable    *)
(* value, symmetrically in the sign, as IEEE arithmetic rounds.            *)
(*                                                                         *)
(* C arrays are 0-based and TLA+ sequences 1-based: the cell at C index i  *)
(* is line[i + 1].                                                         *)
(*                                                                         *)
(* Specifications.  SpecDelay drives a stand-alone delay line, SpecFilter  *)
(* a stand-alone allpass or comb; Spec, SpecProc, SpecDet and SpecRate are *)
(* hosts of the C entry points that configure models, process blocks,      *)
(* compare runs from reset, and change the sample rate.                    *)
(***************************************************************************)
EXTENDS Integers, Sequences, FiniteSets, TLC

VARIABLES
    dl,         \* the stand-alone fluid_reverb_delay_line under test
    dl_hist,    \* what the last operation on dl was, and what it returned
    revmodel,   \* the object behind the caller's fluid_revmodel_t *, or NULL
    left_buf,   \* the caller's left output buffer
    right_buf,  \* the caller's right output buffer
    call,       \* the last entry point called: arguments, state before, result
    ncalls,     \* entry points called so far, by kind
    run,        \* the process calls since the last reset, with their outputs
    prev_run,   \* the run the last reset ended
    flt,        \* the stand-alone fluid_reverb_allpass or _comb under test
    flt_hist    \* what the last operation on flt was, and what it returned

dl_vars == <<dl, dl_hist>>

flt_vars == <<flt, flt_hist>>

api_vars == <<revmodel, left_buf, right_buf, call, ncalls, run, prev_run>>

vars == <<dl, dl_hist, revmodel, left_buf, right_buf, call, ncalls, run, prev_run,
         flt, flt_hist>>

--------------------------------------------------------------------------
(* Arithmetic of sample_t / fluid_real_t *)

Unit == 10000

Abs(a) == IF a < 0 THEN -a ELSE a

Sgn(a) == IF a < 0 THEN -1 ELSE IF a > 0 THEN 1 ELSE 0

RECURSIVE GCD(_, _)
GCD(a, b) == IF b = 0 THEN a ELSE GCD(b, a % b)

\* p / q rounded to the nearest integer, q > 0, halves away from zero
RoundDiv(p, q) ==
    IF p >= 0 THEN (p + q \div 2) \div q
    ELSE -(((-p) + q \div 2) \div q)

\* a * n / d rounded, d > 0; n / d is reduced first, which keeps the
\* intermediate product small and does not change the result
Ratio(a, n, d) ==
    LET g == GCD(Abs(n), d)
    IN  RoundDiv(a * (n \div g), d \div g)

\* a * b
FMul(a, b) == Ratio(a, b, Unit)

\* a / b, b # 0
FDiv(a, b) == Ratio(Sgn(b) * a, Unit, Abs(b))

\* the literal n/d, e.g. 0.75f is Lit(75, 100)
Lit(n, d) == RoundDiv(n * Unit, d)

\* static_cast<int>(x): truncation toward zero of a value in units
ToInt(a) == IF a >= 0 THEN a \div Unit ELSE -((-a) \div Unit)

\* fluid_clip(val, min, max)
fluid_clip(val, min, max) ==
    IF val < min THEN min ELSE IF val > max THEN max ELSE val

--------------------------------------------------------------------------
(* Bounds of the model *)

MaxLen == 3         \* longest stand-alone delay line
MaxFltOps == 6        \* operations on the stand-alone filter
MaxDlOps == 7       \* operations on the stand-alone delay line
FLUID_BUFSIZE == 5  \* samples in a block
MaxNew == 1         \* factory calls, where models are configured
MaxSets == 2        \* set calls, where models are configured
MaxProcCalls == 3   \* calls on a configured model, where blocks are processed
MaxRateCalls == 3     \* calls after configuration, where the rate changes
MaxDetCalls == 4    \* calls on a configured model, where runs from reset are compared

\* sample values fed to the stand-alone filters: 0, 1.0, -0.5
Samples == {0, Unit, -(Unit \div 2)}

--------------------------------------------------------------------------
(* fluid_reverb_delay_line<sample_t> *)

\* the default constructor: no buffer, cursors 0
delay_line_new ==
    [line |-> <<>>, line_in |-> 0, line_out |-> 0,
     damping |-> [buffer |-> 0, b0 |-> 0, a1 |-> 0],
     coefficient |-> 0, last_output |-> 0]

delay_line_size(d) == Len(d.line)

delay_line_has_buffer(d) == d.line # <<>>

\* std::vector::resize(n, sample_t()): the first cells are kept, new ones are 0
vector_resize(s, n) == [i \in 1..n |-> IF i <= Len(s) THEN s[i] ELSE 0]

\* set_buffer throws std::invalid_argument before touching the line
delay_line_set_buffer_throws(length) == length <= 0

\* a set_buffer that resizes and leaves the cursors where they were
delay_line_set_buffer_keeps_cursors(d, length) ==
    [d EXCEPT !.last_output = 0, !.line = vector_resize(d.line, length)]

\* set_buffer(length), length > 0
delay_line_set_buffer(d, length) ==
    [d EXCEPT !.line_in = 0, !.line_out = 0, !.last_output = 0,
              !.line = vector_resize(d.line, length)]

delay_line_fill_buffer(d, value) ==
    [d EXCEPT !.line = [i \in 1..Len(d.line) |-> value]]

delay_line_set_positions(d, in_pos, out_pos) ==
    [d EXCEPT !.line_in = in_pos, !.line_out = out_pos]

delay_line_set_single_tap_position(d, index) ==
    [d EXCEPT !.line_in = index, !.line_out = index]

delay_line_read(d) == d.line[d.line_out + 1]

delay_line_write(d, value) == [d EXCEPT !.line[d.line_out + 1] = value]

\* the wrap test off by one: > instead of >=
delay_line_advance_off_by_one(d) ==
    [d EXCEPT !.line_out = IF d.line_out + 1 > delay_line_size(d)
                           THEN 0 ELSE d.line_out + 1]

delay_line_advance(d) ==
    [d EXCEPT !.line_out = IF d.line_out + 1 >= delay_line_size(d)
                           THEN 0 ELSE d.line_out + 1]

\* an advance that moves the tap two cells
delay_line_advance_single_tap_twice(d) ==
    LET a == delay_line_advance(delay_line_advance(d))
    IN  [a EXCEPT !.line_in = a.line_out]

delay_line_advance_single_tap(d) ==
    LET a == delay_line_advance(d) IN [a EXCEPT !.line_in = a.line_out]

delay_line_set_last_output(d, value) == [d EXCEPT !.last_output = value]

\* the write made before the read: the input comes straight back
delay_line_process_write_first(d, input) ==
    LET w == [d EXCEPT !.line[d.line_out + 1] = input]
        output == w.line[d.line_out + 1]
    IN  [delay_line_advance_single_tap(w) EXCEPT !.last_output = output]

\* process(input): the returned sample is the new last_output
delay_line_process(d, input) ==
    LET output == d.line[d.line_out + 1]
        w == [d EXCEPT !.line[d.line_out + 1] = input]
    IN  [delay_line_advance_single_tap(w) EXCEPT !.last_output = output]

--------------------------------------------------------------------------
(* fluid_reverb_allpass<sample_t> *)

\* a constructed allpass: the class has no constructor, so mode, feedback and
\* last_output hold what the memory held (g); the delay member is constructed
allpass_new(g) ==
    [mode |-> "UNSET", feedback |-> g, delay |-> delay_line_new, last_output |-> g]

allpass_set_mode(a, mode_in) == [a EXCEPT !.mode = mode_in]

allpass_set_feedback(a, value) == [a EXCEPT !.feedback = value]

allpass_set_buffer(a, size) ==
    [a EXCEPT !.delay = delay_line_set_buffer(a.delay, size), !.last_output = 0]

allpass_fill_buffer(a, value) ==
    [a EXCEPT !.delay = delay_line_fill_buffer(a.delay, value)]

allpass_set_index(a, index) ==
    [a EXCEPT !.delay = delay_line_set_single_tap_position(a.delay, index)]

allpass_set_last_output(a, value) == [a EXCEPT !.last_output = value]

allpass_has_buffer(a) == delay_line_has_buffer(a.delay)

\* a process that returns bufout - input in both modes
allpass_process_one_mode(a, input) ==
    LET bufout == delay_line_read(a.delay)
        delay_in == input + FMul(bufout, a.feedback)
    IN  [a EXCEPT !.delay = delay_line_advance_single_tap(
                                delay_line_write(a.delay, delay_in)),
                  !.last_output = bufout - input]

\* process(input): the returned sample is the new last_output
allpass_process(a, input) ==
    LET bufout == delay_line_read(a.delay)
        delay_in == input + FMul(bufout, a.feedback)
        output == IF a.mode = "FREEVERB"
                  THEN bufout - input
                  ELSE bufout - FMul(delay_in, a.feedback)
    IN  [a EXCEPT !.delay = delay_line_advance_single_tap(
                                delay_line_write(a.delay, delay_in)),
                  !.last_output = output]

--------------------------------------------------------------------------
(* fluid_reverb_comb<sample_t> *)

\* a constructed comb: feedback, filterstore, damp1, damp2 are not initialised
comb_new(g) ==
    [feedback |-> g, filterstore |-> g, damp1 |-> g, damp2 |-> g,
     delay |-> delay_line_new]

comb_set_buffer(c, size) ==
    [c EXCEPT !.delay = delay_line_set_buffer(c.delay, size), !.filterstore = 0]

comb_fill_buffer(c, value) ==
    [c EXCEPT !.delay = delay_line_fill_buffer(c.delay, value)]

\* a set_damp that stores the value in both coefficients
comb_set_damp_twice(c, value) == [c EXCEPT !.damp1 = value, !.damp2 = value]

comb_set_damp(c, value) == [c EXCEPT !.damp1 = value, !.damp2 = Unit - value]

comb_set_feedback(c, value) == [c EXCEPT !.feedback = value]

comb_has_buffer(c) == delay_line_has_buffer(c.delay)

\* a process that writes with the filterstore of the call before
comb_process_stale_store(c, input) ==
    LET output == delay_line_read(c.delay)
        store == FMul(output, c.damp2) + FMul(c.filterstore, c.damp1)
    IN  [comb |-> [c EXCEPT !.filterstore = store,
                            !.delay = delay_line_advance_single_tap(
                                          delay_line_write(c.delay,
                                              input + FMul(c.filterstore, c.feedback)))],
         output |-> output]

\* process(input): the comb after the call, and the sample it returns
comb_process(c, input) ==
    LET output == delay_line_read(c.delay)
        store == FMul(output, c.damp2) + FMul(c.filterstore, c.damp1)
    IN  [comb |-> [c EXCEPT !.filterstore = store,
                            !.delay = delay_line_advance_single_tap(
                                          delay_line_write(c.delay,
                                              input + FMul(store, c.feedback)))],
         output |-> output]

--------------------------------------------------------------------------
(* The parameter mask of set(): FLUID_REVMODEL_SET_* *)

FLUID_REVMODEL_SET_ROOMSIZE == 1
FLUID_REVMODEL_SET_DAMPING == 2
FLUID_REVMODEL_SET_WIDTH == 4
FLUID_REVMODEL_SET_LEVEL == 8

\* set & flag, flag a power of two
HasFlag(set, flag) == (set \div flag) % 2 = 1

--------------------------------------------------------------------------
(* fluid_revmodel_dattorro *)

DATTORRO_TRIM == Lit(6, 10)
DATTORRO_SCALE_WET_WIDTH == Lit(2, 10)
DATTORRO_INPUT_DIFFUSION1 == Lit(75, 100)
DATTORRO_INPUT_DIFFUSION2 == Lit(625, 1000)
DATTORRO_DECAY_DIFFUSION1 == Lit(7, 10)
DATTORRO_DECAY_DIFFUSION2 == Lit(5, 10)

\* times are kept in microseconds: DATTORRO_PREDELAY_MS / 1000.0f is 4000 us
DATTORRO_PREDELAY_US == 4000

DATTORRO_DELAY_S ==
    <<4771, 3595, 12735, 9307,
      22580, 149625, 60482, 124996,
      30510, 141696, 89244, 106280>>

DATTORRO_TAP_S ==
    <<8938, 99929, 64279, 67068, 66866, 6283, 35819,
      11861, 121871, 41262, 89816, 70932, 11256, 4066>>

\* the conversion without the + 0.5f: it truncates
fluid_dattorro_seconds_to_samples_truncated(useconds, sample_rate) ==
    LET length == (useconds * sample_rate) \div 1000000
    IN  IF length > 0 THEN length ELSE 1

\* static_cast<int>(seconds * sample_rate + 0.5f), at least 1; sample_rate in Hz
fluid_dattorro_seconds_to_samples(useconds, sample_rate) ==
    LET length == (useconds * sample_rate + 500000) \div 1000000
    IN  IF length > 0 THEN length ELSE 1

\* the C remainder a % n, n > 0: it has the sign of a
CRem(a, n) == IF a >= 0 THEN a % n ELSE -((-a) % n)

\* a tap read that counts the offset back from the cursor
fluid_dattorro_read_tap_behind(delay, tap) ==
    LET size == delay_line_size(delay)
        index == IF size <= 0 THEN 0 ELSE CRem(delay.line_out - tap, size)
    IN  IF size <= 0 THEN 0
        ELSE delay.line[(IF index < 0 THEN index + size ELSE index) + 1]

\* a tap read that mirrors a negative remainder instead of wrapping it
fluid_dattorro_read_tap_mirrored(delay, tap) ==
    LET size == delay_line_size(delay)
        index == IF size <= 0 THEN 0 ELSE CRem(delay.line_out + tap, size)
    IN  IF size <= 0 THEN 0
        ELSE delay.line[(IF index < 0 THEN -index ELSE index) + 1]

fluid_dattorro_read_tap(delay, tap) ==
    LET size == delay_line_size(delay)
        index == IF size <= 0 THEN 0 ELSE CRem(delay.line_out + tap, size)
    IN  IF size <= 0 THEN 0
        ELSE delay.line[(IF index < 0 THEN index + size ELSE index) + 1]

\* the member initialisers of the constructor (before setup())
dattorro_members(sample_rate) ==
    [type |-> "DATTORRO",
     roomsize |-> 0, damp |-> 0, level |-> 0, wet1 |-> 0, wet2 |-> 0, width |-> 0,
     bandwidth |-> Lit(9999, 10000), decay |-> Lit(5, 10),
     cached_sample_rate |-> sample_rate,
     bandwidth_state |-> 0, damp_state_left |-> 0, damp_state_right |-> 0,
     predelay |-> delay_line_new,
     input_ap |-> [i \in 1..4 |-> allpass_new(0)],
     tank_ap |-> [i \in 1..4 |-> allpass_new(0)],
     tank_delay |-> [i \in 1..4 |-> delay_line_new],
     taps |-> [i \in 1..14 |-> 0]]

\* a reset() that leaves the cells and filter states as they are
dattorro_reset_keeps_state(rev) == rev

\* a reset() without the set_last_output(0.0f) calls
dattorro_reset_keeps_last_output(rev) ==
    [rev EXCEPT
       !.predelay = IF delay_line_has_buffer(@)
                    THEN delay_line_set_single_tap_position(
                             delay_line_fill_buffer(@, 0), 0)
                    ELSE @,
       !.input_ap = [i \in 1..4 |->
            IF allpass_has_buffer(@[i])
            THEN allpass_set_index(allpass_fill_buffer(@[i], 0), 0)
            ELSE @[i]],
       !.tank_ap = [i \in 1..4 |->
            IF allpass_has_buffer(@[i])
            THEN allpass_set_index(allpass_fill_buffer(@[i], 0), 0)
            ELSE @[i]],
       !.tank_delay = [i \in 1..4 |->
            IF delay_line_has_buffer(@[i])
            THEN delay_line_set_single_tap_position(
                     delay_line_fill_buffer(@[i], 0), 0)
            ELSE @[i]],
       !.bandwidth_state = 0,
       !.damp_state_left = 0,
       !.damp_state_right = 0]

\* reset()
dattorro_reset(rev) ==
    [rev EXCEPT
       !.predelay = IF delay_line_has_buffer(@)
                    THEN delay_line_set_single_tap_position(
                             delay_line_fill_buffer(@, 0), 0)
                    ELSE @,
       !.input_ap = [i \in 1..4 |->
            allpass_set_last_output(
                IF allpass_has_buffer(@[i])
                THEN allpass_set_index(allpass_fill_buffer(@[i], 0), 0)
                ELSE @[i], 0)],
       !.tank_ap = [i \in 1..4 |->
            allpass_set_last_output(
                IF allpass_has_buffer(@[i])
                THEN allpass_set_index(allpass_fill_buffer(@[i], 0), 0)
                ELSE @[i], 0)],
       !.tank_delay = [i \in 1..4 |->
            delay_line_set_last_output(
                IF delay_line_has_buffer(@[i])
                THEN delay_line_set_single_tap_position(
                         delay_line_fill_buffer(@[i], 0), 0)
                ELSE @[i], 0)],
       !.bandwidth_state = 0,
       !.damp_state_left = 0,
       !.damp_state_right = 0]

\* what a set_buffer whose resize throws std::bad_alloc leaves behind: the
\* cursors and last_output were cleared before the resize, the cells are kept
delay_line_set_buffer_bad_alloc(d) ==
    [d EXCEPT !.line_in = 0, !.line_out = 0, !.last_output = 0]

\* the k-th set_buffer call of setup(), k in 1..13, with the set_mode before it;
\* ok = FALSE: its resize throws
dattorro_setup_step(rev, k, ok) ==
    LET sr == rev.cached_sample_rate
        SB(d, us) == IF ok
                     THEN delay_line_set_buffer(d,
                              fluid_dattorro_seconds_to_samples(us, sr))
                     ELSE delay_line_set_buffer_bad_alloc(d)
        AP(a, us) == LET m == allpass_set_mode(a, "SCHROEDER")
                     IN  IF ok
                         THEN allpass_set_buffer(m,
                                  fluid_dattorro_seconds_to_samples(us, sr))
                         ELSE [m EXCEPT !.delay = delay_line_set_buffer_bad_alloc(@)]
        i == (k - 6) \div 2 + 1
    IN  IF k = 1 THEN [rev EXCEPT !.predelay = SB(@, DATTORRO_PREDELAY_US)]
        ELSE IF k <= 5
        THEN [rev EXCEPT !.input_ap[k - 1] = AP(@, DATTORRO_DELAY_S[k - 1])]
        ELSE IF k % 2 = 0
        THEN [rev EXCEPT !.tank_ap[i] = AP(@, DATTORRO_DELAY_S[5 + (i - 1) * 2])]
        ELSE [rev EXCEPT !.tank_delay[i] = SB(@, DATTORRO_DELAY_S[6 + (i - 1) * 2])]

\* the set_feedback calls that follow the k-th set_buffer
dattorro_setup_feedback(rev, k) ==
    IF k = 5
    THEN [rev EXCEPT
            !.input_ap[1] = allpass_set_feedback(@, DATTORRO_INPUT_DIFFUSION1),
            !.input_ap[2] = allpass_set_feedback(@, DATTORRO_INPUT_DIFFUSION1),
            !.input_ap[3] = allpass_set_feedback(@, DATTORRO_INPUT_DIFFUSION2),
            !.input_ap[4] = allpass_set_feedback(@, DATTORRO_INPUT_DIFFUSION2)]
    ELSE IF k = 13
    THEN [rev EXCEPT
            !.tank_ap[1] = allpass_set_feedback(@, DATTORRO_DECAY_DIFFUSION1),
            !.tank_ap[2] = allpass_set_feedback(@, DATTORRO_DECAY_DIFFUSION2),
            !.tank_ap[3] = allpass_set_feedback(@, DATTORRO_DECAY_DIFFUSION1),
            !.tank_ap[4] = allpass_set_feedback(@, DATTORRO_DECAY_DIFFUSION2)]
    ELSE rev

RECURSIVE dattorro_setup_from(_, _, _)
\* setup() from its k-th set_buffer on; fail_at = 0: no allocation fails
dattorro_setup_from(rev, k, fail_at) ==
    IF k > 13
    THEN [rev |-> dattorro_reset(
                    [rev EXCEPT !.taps = [t \in 1..14 |->
                        fluid_dattorro_seconds_to_samples(DATTORRO_TAP_S[t],
                                                          rev.cached_sample_rate)]]),
          threw |-> FALSE]
    ELSE IF k = fail_at
    THEN [rev |-> dattorro_setup_step(rev, k, FALSE), threw |-> TRUE]
    ELSE dattorro_setup_from(
             dattorro_setup_feedback(dattorro_setup_step(rev, k, TRUE), k),
             k + 1, fail_at)

\* setup()
dattorro_setup(rev, fail_at) == dattorro_setup_from(rev, 1, fail_at)

\* the constructor: threw = TRUE when it throws (no object exists then)
dattorro_new(sample_rate, fail_at) ==
    IF sample_rate <= 0
    THEN [rev |-> dattorro_members(sample_rate), threw |-> TRUE]
    ELSE dattorro_setup(dattorro_members(sample_rate), fail_at)

\* update() with the sign of the cross gain wet2 turned
dattorro_update_wet2_negated(rev) ==
    LET wet == FDiv(rev.level, Unit + FMul(rev.width, DATTORRO_SCALE_WET_WIDTH))
    IN  [rev EXCEPT
           !.wet1 = FMul(wet, FDiv(rev.width, 2 * Unit) + Lit(5, 10)),
           !.wet2 = FMul(wet, FDiv(rev.width - Unit, 2 * Unit)),
           !.decay = Lit(2, 10) + FMul(rev.roomsize, Lit(78, 100))]

\* update() that gives the whole wet gain to the direct path
dattorro_update_no_cross(rev) ==
    LET wet == FDiv(rev.level, Unit + FMul(rev.width, DATTORRO_SCALE_WET_WIDTH))
    IN  [rev EXCEPT
           !.wet1 = wet,
           !.wet2 = 0,
           !.decay = Lit(2, 10) + FMul(rev.roomsize, Lit(78, 100))]

\* update()
dattorro_update(rev) ==
    LET wet == FDiv(rev.level, Unit + FMul(rev.width, DATTORRO_SCALE_WET_WIDTH))
    IN  [rev EXCEPT
           !.wet1 = FMul(wet, FDiv(rev.width, 2 * Unit) + Lit(5, 10)),
           !.wet2 = FMul(wet, FDiv(Unit - rev.width, 2 * Unit)),
           !.decay = Lit(2, 10) + FMul(rev.roomsize, Lit(78, 100))]

\* set() that stores all four arguments whatever the mask
dattorro_set_ignores_mask(rev, set, roomsize, damping, width, level) ==
    dattorro_update(
        [rev EXCEPT
           !.roomsize = fluid_clip(roomsize, 0, Unit),
           !.damp = fluid_clip(damping, 0, Unit),
           !.width = fluid_clip(width, 0, 100 * Unit),
           !.level = fluid_clip(level, 0, Unit)])

\* set(set, roomsize, damping, width, level)
dattorro_set(rev, set, roomsize, damping, width, level) ==
    dattorro_update(
        [rev EXCEPT
           !.roomsize = IF HasFlag(set, FLUID_REVMODEL_SET_ROOMSIZE)
                        THEN fluid_clip(roomsize, 0, Unit) ELSE @,
           !.damp = IF HasFlag(set, FLUID_REVMODEL_SET_DAMPING)
                    THEN fluid_clip(damping, 0, Unit) ELSE @,
           !.width = IF HasFlag(set, FLUID_REVMODEL_SET_WIDTH)
                     THEN fluid_clip(width, 0, 100 * Unit) ELSE @,
           !.level = IF HasFlag(set, FLUID_REVMODEL_SET_LEVEL)
                     THEN fluid_clip(level, 0, Unit) ELSE @])

\* the caller's buffers and the locals of process<MIX>, beside the object
dattorro_frame(rev, left_out, right_out) ==
    [rev |-> rev, left_out |-> left_out, right_out |-> right_out,
     bandwidth_state_local |-> rev.bandwidth_state,
     damp_state_left_local |-> rev.damp_state_left,
     damp_state_right_local |-> rev.damp_state_right,
     input |-> 0, pre |-> 0, split |-> 0, left |-> 0, right |-> 0,
     out_left |-> 0, out_right |-> 0,
     i |-> 1,       \* the sample the loop is at
     pc |-> 1]      \* the statement of the loop body to run next

dattorro_frame_predelay(f, d) ==
    [f EXCEPT !.rev.predelay = d, !.pre = d.last_output]

dattorro_frame_input_ap(f, k, a) ==
    [f EXCEPT !.rev.input_ap[k] = a, !.split = a.last_output]

dattorro_frame_tank_ap(f, k, a) ==
    IF k <= 2 THEN [f EXCEPT !.rev.tank_ap[k] = a, !.left = a.last_output]
    ELSE [f EXCEPT !.rev.tank_ap[k] = a, !.right = a.last_output]

dattorro_frame_tank_delay(f, k, d) ==
    IF k <= 2 THEN [f EXCEPT !.rev.tank_delay[k] = d, !.left = d.last_output]
    ELSE [f EXCEPT !.rev.tank_delay[k] = d, !.right = d.last_output]

\* statement k of the body of the loop of process<MIX>, at sample i, on the
\* frame f; the arrays are 1-based here
dattorro_process_stmt(f, k, in, i, MIX) ==
    CASE k = 1 -> [f EXCEPT !.input = FMul(in[i], DATTORRO_TRIM)]
      [] k = 2 -> dattorro_frame_predelay(f,
                      delay_line_process(f.rev.predelay, f.input))
      [] k = 3 -> [f EXCEPT !.bandwidth_state_local =
                      @ + FMul(f.rev.bandwidth, f.pre - @)]
      [] k = 4 -> dattorro_frame_input_ap(f, 1,
                      allpass_process(f.rev.input_ap[1], f.bandwidth_state_local))
      [] k \in 5..7 -> dattorro_frame_input_ap(f, k - 3,
                           allpass_process(f.rev.input_ap[k - 3], f.split))
      \* left tank: tank_delay[3] has not run yet in this iteration
      [] k = 8 -> [f EXCEPT !.left =
                      f.split + FMul(f.rev.decay, f.rev.tank_delay[4].last_output)]
      [] k = 9 -> dattorro_frame_tank_ap(f, 1,
                      allpass_process(f.rev.tank_ap[1], f.left))
      [] k = 10 -> dattorro_frame_tank_delay(f, 1,
                       delay_line_process(f.rev.tank_delay[1], f.left))
      [] k = 11 -> [f EXCEPT !.damp_state_left_local =
                       @ + FMul(Unit - f.rev.damp, f.left - @)]
      [] k = 12 -> dattorro_frame_tank_ap(f, 2,
                       allpass_process(f.rev.tank_ap[2],
                           FMul(f.rev.decay, f.damp_state_left_local)))
      [] k = 13 -> dattorro_frame_tank_delay(f, 2,
                       delay_line_process(f.rev.tank_delay[2], f.left))
      \* right tank: tank_delay[1] has already run in this iteration
      [] k = 14 -> [f EXCEPT !.right =
                       f.split + FMul(f.rev.decay, f.rev.tank_delay[2].last_output)]
      [] k = 15 -> dattorro_frame_tank_ap(f, 3,
                       allpass_process(f.rev.tank_ap[3], f.right))
      [] k = 16 -> dattorro_frame_tank_delay(f, 3,
                       delay_line_process(f.rev.tank_delay[3], f.right))
      [] k = 17 -> [f EXCEPT !.damp_state_right_local =
                       @ + FMul(Unit - f.rev.damp, f.right - @)]
      [] k = 18 -> dattorro_frame_tank_ap(f, 4,
                       allpass_process(f.rev.tank_ap[4],
                           FMul(f.rev.decay, f.damp_state_right_local)))
      [] k = 19 -> dattorro_frame_tank_delay(f, 4,
                       delay_line_process(f.rev.tank_delay[4], f.right))
      [] k = 20 -> [f EXCEPT !.out_left =
                         fluid_dattorro_read_tap(f.rev.tank_delay[3], f.rev.taps[1])
                       + fluid_dattorro_read_tap(f.rev.tank_delay[3], f.rev.taps[2])
                       - fluid_dattorro_read_tap(f.rev.tank_ap[4].delay, f.rev.taps[3])
                       + fluid_dattorro_read_tap(f.rev.tank_delay[4], f.rev.taps[4])
                       - fluid_dattorro_read_tap(f.rev.tank_delay[1], f.rev.taps[5])
                       - fluid_dattorro_read_tap(f.rev.tank_ap[2].delay, f.rev.taps[6])
                       - fluid_dattorro_read_tap(f.rev.tank_delay[2], f.rev.taps[7])]
      [] k = 21 -> [f EXCEPT !.out_right =
                         fluid_dattorro_read_tap(f.rev.tank_delay[1], f.rev.taps[8])
                       + fluid_dattorro_read_tap(f.rev.tank_delay[1], f.rev.taps[9])
                       - fluid_dattorro_read_tap(f.rev.tank_ap[2].delay, f.rev.taps[10])
                       + fluid_dattorro_read_tap(f.rev.tank_delay[2], f.rev.taps[11])
                       - fluid_dattorro_read_tap(f.rev.tank_delay[3], f.rev.taps[12])
                       - fluid_dattorro_read_tap(f.rev.tank_ap[4].delay, f.rev.taps[13])
                       - fluid_dattorro_read_tap(f.rev.tank_delay[4], f.rev.taps[14])]
      [] OTHER ->
           [f EXCEPT
              !.left_out[i] = (IF MIX THEN @ ELSE 0)
                  + FMul(f.out_left, f.rev.wet1) + FMul(f.out_right, f.rev.wet2),
              !.right_out[i] = (IF MIX THEN @ ELSE 0)
                  + FMul(f.out_right, f.rev.wet1) + FMul(f.out_left, f.rev.wet2)]

RECURSIVE dattorro_process_sample(_, _, _)
\* the body of the loop of process<MIX> from statement f.pc on
dattorro_process_sample(f, in, MIX) ==
    IF f.pc > 22 THEN f
    ELSE dattorro_process_sample(
             [dattorro_process_stmt(f, f.pc, in, f.i, MIX) EXCEPT !.pc = @ + 1],
             in, MIX)

RECURSIVE dattorro_process_from(_, _, _)
\* the loop of process<MIX> from sample f.i on
dattorro_process_from(f, in, MIX) ==
    IF f.i > Len(in) THEN f
    ELSE dattorro_process_from(
             [dattorro_process_sample([f EXCEPT !.pc = 1], in, MIX)
                 EXCEPT !.i = @ + 1],
             in, MIX)

\* a write-back that also stores the last damping state as the decay
dattorro_process_end_writes_decay(f) ==
    [rev |-> [f.rev EXCEPT !.bandwidth_state = f.bandwidth_state_local,
                           !.damp_state_left = f.damp_state_left_local,
                           !.damp_state_right = f.damp_state_right_local,
                           !.decay = f.damp_state_left_local],
     left_out |-> f.left_out, right_out |-> f.right_out]

\* the write-back of the locals that ends process<MIX>
dattorro_process_end(f) ==
    [rev |-> [f.rev EXCEPT !.bandwidth_state = f.bandwidth_state_local,
                           !.damp_state_left = f.damp_state_left_local,
                           !.damp_state_right = f.damp_state_right_local],
     left_out |-> f.left_out, right_out |-> f.right_out]

\* process<MIX>(in, left_out, right_out)
dattorro_process(rev, in, left_out, right_out, MIX) ==
    dattorro_process_end(
        dattorro_process_from(dattorro_frame(rev, left_out, right_out), in, MIX))

dattorro_processmix(rev, in, left_out, right_out) ==
    dattorro_process(rev, in, left_out, right_out, TRUE)

dattorro_processreplace(rev, in, left_out, right_out) ==
    dattorro_process(rev, in, left_out, right_out, FALSE)

\* a samplerate_change that stores the rate before it tests it
dattorro_samplerate_change_stores_first(rev, sample_rate, fail_at) ==
    IF sample_rate <= 0
    THEN [rev |-> [rev EXCEPT !.cached_sample_rate = sample_rate],
          threw |-> FALSE, ret |-> "FLUID_FAILED"]
    ELSE LET s == dattorro_setup([rev EXCEPT !.cached_sample_rate = sample_rate],
                                 fail_at)
         IN  IF s.threw
             THEN [rev |-> s.rev, threw |-> TRUE, ret |-> "FLUID_FAILED"]
             ELSE [rev |-> dattorro_update(s.rev), threw |-> FALSE,
                   ret |-> "FLUID_OK"]

\* samplerate_change(sample_rate): ret is the value returned when it does not throw
dattorro_samplerate_change(rev, sample_rate, fail_at) ==
    IF sample_rate <= 0
    THEN [rev |-> rev, threw |-> FALSE, ret |-> "FLUID_FAILED"]
    ELSE LET s == dattorro_setup([rev EXCEPT !.cached_sample_rate = sample_rate],
                                 fail_at)
         IN  IF s.threw
             THEN [rev |-> s.rev, threw |-> TRUE, ret |-> "FLUID_FAILED"]
             ELSE [rev |-> dattorro_update(s.rev), threw |-> FALSE,
                   ret |-> "FLUID_OK"]

--------------------------------------------------------------------------
(* fluid_revmodel_freeverb *)

\* the smallest positive sample value of the model stands for 1e-8
DC_OFFSET == 1
fixedgain == Lit(15, 1000)
scale_wet_width == Lit(2, 10)
scalewet == 3 * Unit
scaledamp == Unit
scaleroom == Lit(28, 100)
offsetroom == Lit(7, 10)
stereospread == 23
numcombs == 8
numallpasses == 4

combtuningL == <<1116, 1188, 1277, 1356, 1422, 1491, 1557, 1617>>
combtuningR == [i \in 1..numcombs |-> combtuningL[i] + stereospread]
allpasstuningL == <<556, 441, 341, 225>>
allpasstuningR == [i \in 1..numallpasses |-> allpasstuningL[i] + stereospread]

\* the float tuning * srfactor converted to the int parameter of set_buffer,
\* srfactor = sample_rate / 44100.0f; sample_rate in Hz
freeverb_buffer_length(tuning, sample_rate) ==
    IF sample_rate >= 0 THEN (tuning * sample_rate) \div 44100
    ELSE -((tuning * (-sample_rate)) \div 44100)

\* the object as operator new leaves it: no member has an initialiser, the
\* scalar members hold what the memory held (g)
freeverb_members(g) ==
    [type |-> "FREEVERB",
     roomsize |-> g, damp |-> g, level |-> g, wet1 |-> g, wet2 |-> g,
     width |-> g, gain |-> g,
     combL |-> [i \in 1..numcombs |-> comb_new(g)],
     combR |-> [i \in 1..numcombs |-> comb_new(g)],
     allpassL |-> [i \in 1..numallpasses |-> allpass_new(g)],
     allpassR |-> [i \in 1..numallpasses |-> allpass_new(g)]]

\* fluid_freeverb_revmodel_init
fluid_freeverb_revmodel_init(rev) ==
    [rev EXCEPT
       !.combL = [i \in 1..numcombs |-> comb_fill_buffer(@[i], DC_OFFSET)],
       !.combR = [i \in 1..numcombs |-> comb_fill_buffer(@[i], DC_OFFSET)],
       !.allpassL = [i \in 1..numallpasses |-> allpass_fill_buffer(@[i], DC_OFFSET)],
       !.allpassR = [i \in 1..numallpasses |-> allpass_fill_buffer(@[i], DC_OFFSET)]]

fluid_freeverb_revmodel_reset(rev) == fluid_freeverb_revmodel_init(rev)

\* the length the k-th set_buffer call of fluid_freeverb_set_revmodel_buffers
\* is given, k in 1..24: combL[0], combR[0], combL[1], ... allpassR[3]
freeverb_buffer_length_at(k, sample_rate) ==
    LET j == ((IF k <= 16 THEN k ELSE k - 16) + 1) \div 2
    IN  freeverb_buffer_length(
            IF k <= 16
            THEN (IF k % 2 = 1 THEN combtuningL[j] ELSE combtuningR[j])
            ELSE (IF k % 2 = 1 THEN allpasstuningL[j] ELSE allpasstuningR[j]),
            sample_rate)

\* the k-th set_buffer call; ok = FALSE: its resize throws std::bad_alloc
freeverb_set_buffer_step(rev, k, sample_rate, ok) ==
    LET j == ((IF k <= 16 THEN k ELSE k - 16) + 1) \div 2
        length == freeverb_buffer_length_at(k, sample_rate)
        C(c) == IF ok THEN comb_set_buffer(c, length)
                ELSE [c EXCEPT !.delay = delay_line_set_buffer_bad_alloc(@)]
        A(a) == IF ok THEN allpass_set_buffer(a, length)
                ELSE [a EXCEPT !.delay = delay_line_set_buffer_bad_alloc(@)]
    IN  IF k <= 16
        THEN (IF k % 2 = 1 THEN [rev EXCEPT !.combL[j] = C(@)]
              ELSE [rev EXCEPT !.combR[j] = C(@)])
        ELSE (IF k % 2 = 1 THEN [rev EXCEPT !.allpassL[j] = A(@)]
              ELSE [rev EXCEPT !.allpassR[j] = A(@)])

RECURSIVE freeverb_set_buffers_from(_, _, _, _)
\* fluid_freeverb_set_revmodel_buffers from its k-th set_buffer on
freeverb_set_buffers_from(rev, k, sample_rate, fail_at) ==
    IF k > 2 * numcombs + 2 * numallpasses
    THEN [rev |-> fluid_freeverb_revmodel_init(rev), threw |-> FALSE]
    ELSE IF delay_line_set_buffer_throws(freeverb_buffer_length_at(k, sample_rate))
    THEN [rev |-> rev, threw |-> TRUE]
    ELSE IF k = fail_at
    THEN [rev |-> freeverb_set_buffer_step(rev, k, sample_rate, FALSE),
          threw |-> TRUE]
    ELSE freeverb_set_buffers_from(
             freeverb_set_buffer_step(rev, k, sample_rate, TRUE),
             k + 1, sample_rate, fail_at)

fluid_freeverb_set_revmodel_buffers(rev, sample_rate, fail_at) ==
    freeverb_set_buffers_from(rev, 1, sample_rate, fail_at)

\* the constructor: threw = TRUE when it throws (no object exists then)
freeverb_new(sample_rate, fail_at, g) ==
    LET b == fluid_freeverb_set_revmodel_buffers(freeverb_members(g),
                                                 sample_rate, fail_at)
        AP(a) == allpass_set_feedback(allpass_set_mode(a, "FREEVERB"), Lit(5, 10))
    IN  IF b.threw THEN b
        ELSE [rev |-> [b.rev EXCEPT
                         !.allpassL = [i \in 1..numallpasses |-> AP(@[i])],
                         !.allpassR = [i \in 1..numallpasses |-> AP(@[i])],
                         !.gain = fixedgain],
              threw |-> FALSE]

\* fluid_freeverb_revmodel_update
fluid_freeverb_revmodel_update(rev) ==
    LET wet == FDiv(FMul(rev.level, scalewet),
                    Unit + FMul(rev.width, scale_wet_width))
        C(c) == comb_set_damp(comb_set_feedback(c, rev.roomsize), rev.damp)
    IN  [rev EXCEPT
           !.wet1 = FMul(wet, FDiv(rev.width, 2 * Unit) + Lit(5, 10)),
           !.wet2 = FMul(wet, FDiv(Unit - rev.width, 2 * Unit)),
           !.combL = [i \in 1..numcombs |-> C(@[i])],
           !.combR = [i \in 1..numcombs |-> C(@[i])]]

\* a set that scales the roomsize argument as it is given
fluid_freeverb_revmodel_set_unclipped(rev, set, roomsize, damping, width, level) ==
    fluid_freeverb_revmodel_update(
        [rev EXCEPT
           !.roomsize = IF HasFlag(set, FLUID_REVMODEL_SET_ROOMSIZE)
                        THEN FMul(roomsize, scaleroom) + offsetroom
                        ELSE @,
           !.damp = IF HasFlag(set, FLUID_REVMODEL_SET_DAMPING)
                    THEN FMul(damping, scaledamp) ELSE @,
           !.width = IF HasFlag(set, FLUID_REVMODEL_SET_WIDTH) THEN width ELSE @,
           !.level = IF HasFlag(set, FLUID_REVMODEL_SET_LEVEL)
                     THEN fluid_clip(level, 0, Unit) ELSE @])

\* fluid_freeverb_revmodel_set
fluid_freeverb_revmodel_set(rev, set, roomsize, damping, width, level) ==
    fluid_freeverb_revmodel_update(
        [rev EXCEPT
           !.roomsize = IF HasFlag(set, FLUID_REVMODEL_SET_ROOMSIZE)
                        THEN FMul(fluid_clip(roomsize, 0, Unit), scaleroom)
                                 + offsetroom
                        ELSE @,
           !.damp = IF HasFlag(set, FLUID_REVMODEL_SET_DAMPING)
                    THEN FMul(damping, scaledamp) ELSE @,
           !.width = IF HasFlag(set, FLUID_REVMODEL_SET_WIDTH) THEN width ELSE @,
           !.level = IF HasFlag(set, FLUID_REVMODEL_SET_LEVEL)
                     THEN fluid_clip(level, 0, Unit) ELSE @])

\* fluid_freeverb_revmodel_samplerate_change
fluid_freeverb_revmodel_samplerate_change(rev, sample_rate, fail_at) ==
    LET b == fluid_freeverb_set_revmodel_buffers(rev, sample_rate, fail_at)
    IN  [rev |-> b.rev, threw |-> b.threw,
         ret |-> IF b.threw THEN "FLUID_FAILED" ELSE "FLUID_OK"]

\* the caller's buffers and the locals of process<MIX>, beside the object
freeverb_frame(rev, left_out, right_out) ==
    [rev |-> rev, left_out |-> left_out, right_out |-> right_out,
     outL |-> 0, outR |-> 0, input |-> 0,
     k |-> 1,       \* the sample the outer loop is at
     i |-> 1]       \* the filter the inner loop is at

freeverb_frame_combs(f, i, l, r) ==
    [f EXCEPT !.rev.combL[i] = l.comb, !.rev.combR[i] = r.comb,
              !.outL = @ + l.output, !.outR = @ + r.output]

RECURSIVE freeverb_process_combs(_)
\* the loop over the combs from comb f.i on
freeverb_process_combs(f) ==
    IF f.i > numcombs THEN f
    ELSE freeverb_process_combs(
             [freeverb_frame_combs(f, f.i,
                  comb_process(f.rev.combL[f.i], f.input),
                  comb_process(f.rev.combR[f.i], f.input))
                 EXCEPT !.i = @ + 1])

freeverb_frame_allpasses(f, i, l, r) ==
    [f EXCEPT !.rev.allpassL[i] = l, !.rev.allpassR[i] = r,
              !.outL = l.last_output, !.outR = r.last_output]

RECURSIVE freeverb_process_allpasses(_)
\* the loop over the allpasses from allpass f.i on
freeverb_process_allpasses(f) ==
    IF f.i > numallpasses THEN f
    ELSE freeverb_process_allpasses(
             [freeverb_frame_allpasses(f, f.i,
                  allpass_process(f.rev.allpassL[f.i], f.outL),
                  allpass_process(f.rev.allpassR[f.i], f.outR))
                 EXCEPT !.i = @ + 1])

\* the head of the loop body: outL = outR = 0 and the input sample
freeverb_process_input(f, x) ==
    [f EXCEPT !.outL = 0, !.outR = 0, !.i = 1,
              !.input = FMul(2 * x + DC_OFFSET, f.rev.gain)]

\* the tail of the loop body: the DC offset removed, the wet pair written
freeverb_process_output(f, MIX) ==
    [f EXCEPT
       !.left_out[f.k] = (IF MIX THEN @ ELSE 0)
           + FMul(f.outL - DC_OFFSET, f.rev.wet1)
           + FMul(f.outR - DC_OFFSET, f.rev.wet2),
       !.right_out[f.k] = (IF MIX THEN @ ELSE 0)
           + FMul(f.outR - DC_OFFSET, f.rev.wet1)
           + FMul(f.outL - DC_OFFSET, f.rev.wet2)]

\* one iteration of the loop of fluid_revmodel_freeverb::process<MIX>
freeverb_process_sample(f, in, MIX) ==
    freeverb_process_output(
        freeverb_process_allpasses(
            [freeverb_process_combs(freeverb_process_input(f, in[f.k]))
                EXCEPT !.i = 1]),
        MIX)

RECURSIVE freeverb_process_from(_, _, _)
\* the outer loop from sample f.k on
freeverb_process_from(f, in, MIX) ==
    IF f.k > Len(in) THEN f
    ELSE freeverb_process_from(
             [freeverb_process_sample(f, in, MIX) EXCEPT !.k = @ + 1], in, MIX)

freeverb_process_end(f) ==
    [rev |-> f.rev, left_out |-> f.left_out, right_out |-> f.right_out]

\* fluid_revmodel_freeverb::process<MIX>
freeverb_process(rev, in, left_out, right_out, MIX) ==
    freeverb_process_end(
        freeverb_process_from(freeverb_frame(rev, left_out, right_out), in, MIX))

freeverb_processmix(rev, in, left_out, right_out) ==
    freeverb_process(rev, in, left_out, right_out, TRUE)

freeverb_processreplace(rev, in, left_out, right_out) ==
    freeverb_process(rev, in, left_out, right_out, FALSE)

--------------------------------------------------------------------------
(* fluid_revmodel_lexverb *)

LEX_TRIM == Lit(7, 10)
LEX_SCALE_WET_WIDTH == Lit(2, 10)
NUM_OF_AP_SECTS == 10
NUM_OF_DELAY_SECTS == 2

\* LEX_REVERB_PARMS: the lengths in 1/100 ms, the coefficients
LEX_REVERB_PARMS ==
    <<[length |-> 5000, coef |-> Lit(750, 1000)],
      [length |-> 4450, coef |-> Lit(720, 1000)],
      [length |-> 3737, coef |-> Lit(691, 1000)],
      [length |-> 2485, coef |-> Lit(649, 1000)],
      [length |-> 1931, coef |-> Lit(662, 1000)],
      [length |-> 4960, coef |-> Lit(750, 1000)],
      [length |-> 4513, coef |-> Lit(720, 1000)],
      [length |-> 3525, coef |-> Lit(691, 1000)],
      [length |-> 2817, coef |-> Lit(649, 1000)],
      [length |-> 1559, coef |-> Lit(646, 1000)],
      [length |-> 871, coef |-> Lit(646, 1000)],
      [length |-> 1205, coef |-> Lit(666, 1000)]>>

\* an ap_info / dl_info after FLUID_MEMSET(.., 0, ..): base is NULL
lex_sect_zero ==
    [length |-> 0, coef |-> 0, alloc |-> "null", base |-> <<>>, out_ptr |-> 0,
     in_data |-> 0, out_data |-> 0]

\* an ap_info / dl_info nothing has written yet: base points anywhere
lex_sect_wild == [lex_sect_zero EXCEPT !.alloc = "wild"]

\* all_pass_filter(ap_info *): a Schroeder section on in_data; the returned
\* sample is the new out_data
all_pass_filter(ap) ==
    LET bufout == ap.base[ap.out_ptr + 1]
        v == ap.in_data + FMul(bufout, ap.coef)
    IN  [ap EXCEPT !.base[ap.out_ptr + 1] = v,
                   !.out_ptr = IF ap.out_ptr + 1 >= ap.length THEN 0
                               ELSE ap.out_ptr + 1,
                   !.out_data = bufout - FMul(v, ap.coef)]

\* delay(dl_info *): the returned sample is the new out_data
delay(d) ==
    [d EXCEPT !.base[d.out_ptr + 1] = d.in_data,
              !.out_ptr = IF d.out_ptr + 1 >= d.length THEN 0 ELSE d.out_ptr + 1,
              !.out_data = d.base[d.out_ptr + 1]]

\* the member initialisers of the constructor; ap and dl are untouched arrays
lexverb_members ==
    [type |-> "LEXVERB",
     roomsize |-> 0, damp |-> 0, level |-> 0, wet1 |-> 0, wet2 |-> 0, width |-> 0,
     valid |-> FALSE, damp_state_left |-> 0, damp_state_right |-> 0,
     ap |-> [i \in 1..NUM_OF_AP_SECTS |-> lex_sect_wild],
     dl |-> [i \in 1..NUM_OF_DELAY_SECTS |-> lex_sect_wild]]

lex_sect_release(b) == [b EXCEPT !.alloc = "null", !.base = <<>>]

fluid_lexverb_release_blocks(rev) ==
    [rev EXCEPT !.ap = [i \in 1..NUM_OF_AP_SECTS |-> lex_sect_release(@[i])],
                !.dl = [i \in 1..NUM_OF_DELAY_SECTS |-> lex_sect_release(@[i])]]

lex_sect_clear(b) ==
    [(IF b.alloc # "null"
      THEN [b EXCEPT !.base = [i \in 1..b.length |-> 0], !.out_ptr = 1]
      ELSE b)
     EXCEPT !.in_data = 0, !.out_data = 0]

fluid_lexverb_clear_blocks(rev) ==
    [rev EXCEPT !.ap = [i \in 1..NUM_OF_AP_SECTS |-> lex_sect_clear(@[i])],
                !.dl = [i \in 1..NUM_OF_DELAY_SECTS |-> lex_sect_clear(@[i])],
                !.damp_state_left = 0,
                !.damp_state_right = 0]

\* the int the float ms * (sample_rate * (1 / 1000.0f)) converts to; the
\* length in 1/100 ms, sample_rate in Hz and positive
fluid_lexverb_ms_to_buf_length(cms, sample_rate) == (cms * sample_rate) \div 100000

\* one iteration of the loops of fluid_lexverb_setup_blocks, k in 1..12;
\* ok = FALSE: FLUID_ARRAY returns NULL.  The cells of a new array hold
\* what the heap held (g)
lexverb_setup_block(b, k, sample_rate, ok, g) ==
    LET length == fluid_lexverb_ms_to_buf_length(LEX_REVERB_PARMS[k].length,
                                                 sample_rate)
    IN  IF ok
        THEN [length |-> length, coef |-> LEX_REVERB_PARMS[k].coef,
              alloc |-> "heap", base |-> [i \in 1..length |-> g], out_ptr |-> 1,
              in_data |-> 0, out_data |-> 0]
        ELSE [b EXCEPT !.length = length, !.coef = LEX_REVERB_PARMS[k].coef,
                       !.alloc = "null", !.base = <<>>]

RECURSIVE lexverb_setup_blocks_from(_, _, _, _, _)
lexverb_setup_blocks_from(rev, k, sample_rate, fail_at, g) ==
    LET put(ok) ==
            IF k <= NUM_OF_AP_SECTS
            THEN [rev EXCEPT !.ap[k] =
                      lexverb_setup_block(@, k, sample_rate, ok, g)]
            ELSE [rev EXCEPT !.dl[k - NUM_OF_AP_SECTS] =
                      lexverb_setup_block(@, k, sample_rate, ok, g)]
    IN  IF k > NUM_OF_AP_SECTS + NUM_OF_DELAY_SECTS
        THEN [rev |-> fluid_lexverb_clear_blocks(rev), ret |-> "FLUID_OK"]
        ELSE IF k = fail_at
        THEN [rev |-> put(FALSE), ret |-> "FLUID_FAILED"]
        ELSE lexverb_setup_blocks_from(put(TRUE), k + 1, sample_rate, fail_at, g)

fluid_lexverb_setup_blocks(rev, sample_rate, fail_at, g) ==
    lexverb_setup_blocks_from(rev, 1, sample_rate, fail_at, g)

fluid_lexverb_update(rev) ==
    LET roomscale == Lit(5, 10) + FMul(Lit(5, 10), rev.roomsize)
        wet == FDiv(FMul(rev.level, roomscale),
                    Unit + FMul(rev.width, LEX_SCALE_WET_WIDTH))
    IN  [rev EXCEPT
           !.wet1 = FMul(wet, FDiv(rev.width, 2 * Unit) + Lit(5, 10)),
           !.wet2 = FMul(wet, FDiv(Unit - rev.width, 2 * Unit))]

\* the caller's buffers and the locals of processmix / processreplace,
\* beside the object
lexverb_frame(rev, left_out, right_out) ==
    [rev |-> rev, left_out |-> left_out, right_out |-> right_out,
     left |-> 0, right |-> 0,
     i |-> 1,       \* the sample the loop is at
     pc |-> 1]      \* the statement of fluid_lexverb_process_sample to run next

\* ap[dst].in_data = all_pass_filter(&ap[src]), a the section after the call
lexverb_frame_ap(f, src, dst, a) ==
    [f EXCEPT !.rev.ap[src] = a, !.rev.ap[dst].in_data = a.out_data]

\* ap[dst].in_data = all_pass_filter(&ap[src]) + delay(&dl[j]) * dl[j].coef
lexverb_frame_ap_dl(f, src, dst, j, a, d) ==
    [f EXCEPT !.rev.ap[src] = a, !.rev.dl[j] = d,
              !.rev.ap[dst].in_data = a.out_data + FMul(d.out_data, d.coef)]

\* *out_left = all_pass_filter(&ap[src])
lexverb_frame_left(f, src, a) ==
    [f EXCEPT !.rev.ap[src] = a, !.left = a.out_data]

\* *out_right = all_pass_filter(&ap[src])
lexverb_frame_right(f, src, a) ==
    [f EXCEPT !.rev.ap[src] = a, !.right = a.out_data]

\* statement k of fluid_lexverb_process_sample on the frame f; the arrays
\* are 1-based here
lexverb_process_stmt(f, k, input) ==
    CASE k = 1 -> [f EXCEPT !.rev.ap[1].in_data = FMul(input, LEX_TRIM)]
      [] k = 2 -> lexverb_frame_ap(f, 1, 2, all_pass_filter(f.rev.ap[1]))
      \* ap[9] has not run yet in this call
      [] k = 3 -> [f EXCEPT !.rev.dl[2].in_data = f.rev.ap[10].out_data]
      [] k = 4 -> lexverb_frame_ap_dl(f, 2, 3, 2, all_pass_filter(f.rev.ap[2]),
                                      delay(f.rev.dl[2]))
      [] k = 5 -> lexverb_frame_ap(f, 3, 4, all_pass_filter(f.rev.ap[3]))
      [] k = 6 -> lexverb_frame_ap(f, 4, 5, all_pass_filter(f.rev.ap[4]))
      [] k = 7 -> lexverb_frame_left(f, 5, all_pass_filter(f.rev.ap[5]))
      [] k = 8 -> [f EXCEPT !.rev.ap[6].in_data = FMul(input, LEX_TRIM)]
      [] k = 9 -> lexverb_frame_ap(f, 6, 7, all_pass_filter(f.rev.ap[6]))
      \* ap[4] has already run in this call
      [] k = 10 -> [f EXCEPT !.rev.dl[1].in_data = f.rev.ap[5].out_data]
      [] k = 11 -> lexverb_frame_ap_dl(f, 7, 8, 1, all_pass_filter(f.rev.ap[7]),
                                       delay(f.rev.dl[1]))
      [] k = 12 -> lexverb_frame_ap(f, 8, 9, all_pass_filter(f.rev.ap[8]))
      [] k = 13 -> lexverb_frame_ap(f, 9, 10, all_pass_filter(f.rev.ap[9]))
      [] k = 14 -> lexverb_frame_right(f, 10, all_pass_filter(f.rev.ap[10]))
      [] k = 15 ->
           IF f.rev.damp > 0
           THEN [f EXCEPT
                   !.left = FMul(@, Unit - f.rev.damp)
                                + FMul(f.rev.damp_state_left, f.rev.damp),
                   !.right = FMul(@, Unit - f.rev.damp)
                                 + FMul(f.rev.damp_state_right, f.rev.damp)]
           ELSE f
      [] OTHER -> [f EXCEPT !.rev.damp_state_left = f.left,
                            !.rev.damp_state_right = f.right]

RECURSIVE lexverb_process_stmts(_, _)
\* fluid_lexverb_process_sample from statement f.pc on
lexverb_process_stmts(f, input) ==
    IF f.pc > 16 THEN f
    ELSE lexverb_process_stmts(
             [lexverb_process_stmt(f, f.pc, input) EXCEPT !.pc = @ + 1], input)

\* fluid_lexverb_process_sample: the frame after it; left and right hold
\* *out_left and *out_right
fluid_lexverb_process_sample(f, input) ==
    lexverb_process_stmts([f EXCEPT !.pc = 1], input)

\* the constructor; it does not throw.  g: what the heap holds
lexverb_new(sample_rate, fail_at, g) ==
    IF sample_rate <= 0 THEN lexverb_members
    ELSE LET z == [lexverb_members EXCEPT
                      !.ap = [i \in 1..NUM_OF_AP_SECTS |-> lex_sect_zero],
                      !.dl = [i \in 1..NUM_OF_DELAY_SECTS |-> lex_sect_zero]]
             s == fluid_lexverb_setup_blocks(z, sample_rate, fail_at, g)
         IN  IF s.ret # "FLUID_OK" THEN fluid_lexverb_release_blocks(s.rev)
             ELSE [s.rev EXCEPT !.valid = TRUE]

lexverb_process_end(f) ==
    [rev |-> f.rev, left_out |-> f.left_out, right_out |-> f.right_out]

\* the rest of the loop body of processmix, after process_sample
lexverb_processmix_out(f) ==
    [f EXCEPT
       !.left_out[f.i] =
           @ + (FMul(f.left, f.rev.wet1) + FMul(f.right, f.rev.wet2)),
       !.right_out[f.i] =
           @ + (FMul(f.right, f.rev.wet1) + FMul(f.left, f.rev.wet2)),
       !.i = @ + 1]

RECURSIVE lexverb_processmix_from(_, _)
\* the loop of processmix from sample f.i on
lexverb_processmix_from(f, in) ==
    IF f.i > Len(in) THEN f
    ELSE lexverb_processmix_from(
             lexverb_processmix_out(fluid_lexverb_process_sample(f, in[f.i])),
             in)

\* fluid_revmodel_lexverb::processmix
lexverb_processmix(rev, in, left_out, right_out) ==
    IF ~rev.valid
    THEN [rev |-> rev, left_out |-> left_out, right_out |-> right_out]
    ELSE lexverb_process_end(
             lexverb_processmix_from(lexverb_frame(rev, left_out, right_out), in))

\* the rest of the loop body of processreplace, after process_sample
lexverb_processreplace_out(f) ==
    [f EXCEPT
       !.left_out[f.i] = FMul(f.left, f.rev.wet1) + FMul(f.right, f.rev.wet2),
       !.right_out[f.i] = FMul(f.right, f.rev.wet1) + FMul(f.left, f.rev.wet2),
       !.i = @ + 1]

RECURSIVE lexverb_processreplace_from(_, _)
\* the loop of processreplace from sample f.i on
lexverb_processreplace_from(f, in) ==
    IF f.i > Len(in) THEN f
    ELSE lexverb_processreplace_from(
             lexverb_processreplace_out(fluid_lexverb_process_sample(f, in[f.i])),
             in)

\* fluid_revmodel_lexverb::processreplace
lexverb_processreplace(rev, in, left_out, right_out) ==
    IF ~rev.valid
    THEN [rev |-> rev, left_out |-> left_out, right_out |-> right_out]
    ELSE lexverb_process_end(
             lexverb_processreplace_from(lexverb_frame(rev, left_out, right_out),
                                         in))

\* fluid_revmodel_lexverb::reset
lexverb_reset(rev) == IF ~rev.valid THEN rev ELSE fluid_lexverb_clear_blocks(rev)

\* fluid_revmodel_lexverb::set
lexverb_set(rev, set, roomsize, damping, width, level) ==
    fluid_lexverb_update(
        [rev EXCEPT
           !.roomsize = IF HasFlag(set, FLUID_REVMODEL_SET_ROOMSIZE)
                        THEN fluid_clip(roomsize, 0, Unit) ELSE @,
           !.damp = IF HasFlag(set, FLUID_REVMODEL_SET_DAMPING)
                    THEN fluid_clip(damping, 0, Unit) ELSE @,
           !.width = IF HasFlag(set, FLUID_REVMODEL_SET_WIDTH)
                     THEN fluid_clip(width, 0, 100 * Unit) ELSE @,
           !.level = IF HasFlag(set, FLUID_REVMODEL_SET_LEVEL)
                     THEN fluid_clip(level, 0, Unit) ELSE @])

\* fluid_revmodel_lexverb::samplerate_change
lexverb_samplerate_change(rev, sample_rate, fail_at, g) ==
    IF sample_rate <= 0
    THEN [rev |-> rev, threw |-> FALSE, ret |-> "FLUID_FAILED"]
    ELSE LET s == fluid_lexverb_setup_blocks(fluid_lexverb_release_blocks(rev),
                                             sample_rate, fail_at, g)
         IN  IF s.ret # "FLUID_OK"
             THEN [rev |-> [fluid_lexverb_release_blocks(s.rev)
                               EXCEPT !.valid = FALSE],
                   threw |-> FALSE, ret |-> "FLUID_FAILED"]
             ELSE [rev |-> [s.rev EXCEPT !.valid = TRUE],
                   threw |-> FALSE, ret |-> "FLUID_OK"]

--------------------------------------------------------------------------
(* The factory and the C entry points *)

NULL == [type |-> "NULL"]

\* fluid_revmodel_fdn's constructor: the plate model of this core
fdn_new(sample_rate_max, sample_rate, fail_at) == dattorro_new(sample_rate, fail_at)

\* a factory that gives the third constructor the current rate twice
factory_constructs_rate_twice(sample_rate_max, sample_rate, reverb_type) ==
    IF reverb_type = "FREEVERB"
    THEN [class |-> "fluid_revmodel_freeverb", args |-> <<sample_rate>>]
    ELSE IF reverb_type = "LEXVERB"
    THEN [class |-> "fluid_revmodel_lexverb", args |-> <<sample_rate>>]
    ELSE [class |-> "fluid_revmodel_fdn", args |-> <<sample_rate, sample_rate>>]

\* the new-expression new_fluid_revmodel evaluates for a reverb_type
factory_constructs(sample_rate_max, sample_rate, reverb_type) ==
    IF reverb_type = "FREEVERB"
    THEN [class |-> "fluid_revmodel_freeverb", args |-> <<sample_rate>>]
    ELSE IF reverb_type = "LEXVERB"
    THEN [class |-> "fluid_revmodel_lexverb", args |-> <<sample_rate>>]
    ELSE [class |-> "fluid_revmodel_fdn",
          args |-> <<sample_rate_max, sample_rate>>]

\* new_fluid_revmodel: an exception of a constructor ends as NULL
new_fluid_revmodel(sample_rate_max, sample_rate, reverb_type, fail_at, g) ==
    LET e == factory_constructs(sample_rate_max, sample_rate, reverb_type)
    IN  IF e.class = "fluid_revmodel_freeverb"
        THEN LET r == freeverb_new(e.args[1], fail_at, g)
             IN  IF r.threw THEN NULL ELSE r.rev
        ELSE IF e.class = "fluid_revmodel_lexverb"
        THEN lexverb_new(e.args[1], fail_at, g)
        ELSE LET r == fdn_new(e.args[1], e.args[2], fail_at)
             IN  IF r.threw THEN NULL ELSE r.rev

delete_fluid_revmodel(r) == NULL

\* FLUID_FREE of the base pointers of a model whose ap / dl arrays nothing
\* has written: free() of an indeterminate pointer, which the allocator
\* survives (the memory happened to hold NULL) or aborts on
fluid_lexverb_release_outcomes(r) ==
    IF r # NULL /\ r.type = "LEXVERB"
        /\ (\/ \E i \in 1..NUM_OF_AP_SECTS : r.ap[i].alloc = "wild"
            \/ \E i \in 1..NUM_OF_DELAY_SECTS : r.dl[i].alloc = "wild")
    THEN {"returned", "crashed"}
    ELSE {"returned"}

Outputs(r, l, o) == [rev |-> r, left_out |-> l, right_out |-> o]

fluid_revmodel_processmix(r, in, l, o) ==
    IF r = NULL THEN Outputs(r, l, o)
    ELSE IF r.type = "FREEVERB" THEN freeverb_processmix(r, in, l, o)
    ELSE IF r.type = "LEXVERB" THEN lexverb_processmix(r, in, l, o)
    ELSE dattorro_processmix(r, in, l, o)

fluid_revmodel_processreplace(r, in, l, o) ==
    IF r = NULL THEN Outputs(r, l, o)
    ELSE IF r.type = "FREEVERB" THEN freeverb_processreplace(r, in, l, o)
    ELSE IF r.type = "LEXVERB" THEN lexverb_processreplace(r, in, l, o)
    ELSE dattorro_processreplace(r, in, l, o)

fluid_revmodel_reset(r) ==
    IF r = NULL THEN r
    ELSE IF r.type = "FREEVERB" THEN fluid_freeverb_revmodel_reset(r)
    ELSE IF r.type = "LEXVERB" THEN lexverb_reset(r)
    ELSE dattorro_reset(r)

fluid_revmodel_set(r, set, roomsize, damping, width, level) ==
    IF r = NULL THEN r
    ELSE IF r.type = "FREEVERB"
    THEN fluid_freeverb_revmodel_set(r, set, roomsize, damping, width, level)
    ELSE IF r.type = "LEXVERB"
    THEN lexverb_set(r, set, roomsize, damping, width, level)
    ELSE dattorro_set(r, set, roomsize, damping, width, level)

\* fluid_revmodel_samplerate_change: the model after it and the value returned
fluid_revmodel_samplerate_change(r, sample_rate, fail_at, g) ==
    IF r = NULL THEN [rev |-> r, ret |-> "FLUID_FAILED"]
    ELSE LET s == IF r.type = "FREEVERB"
                  THEN fluid_freeverb_revmodel_samplerate_change(r, sample_rate,
                                                                 fail_at)
                  ELSE IF r.type = "LEXVERB"
                  THEN lexverb_samplerate_change(r, sample_rate, fail_at, g)
                  ELSE dattorro_samplerate_change(r, sample_rate, fail_at)
         IN  [rev |-> s.rev, ret |-> IF s.threw THEN "FLUID_FAILED" ELSE s.ret]

\* what the caller sees of the stored parameters
Params(r) == <<r.roomsize, r.damp, r.width, r.level>>

\* every buffer of the model is allocated
FullyInitialized(r) ==
    IF r.type = "FREEVERB"
    THEN /\ \A i \in 1..numcombs :
               comb_has_buffer(r.combL[i]) /\ comb_has_buffer(r.combR[i])
         /\ \A i \in 1..numallpasses :
               allpass_has_buffer(r.allpassL[i]) /\ allpass_has_buffer(r.allpassR[i])
    ELSE IF r.type = "LEXVERB"
    THEN /\ r.valid
         /\ \A i \in 1..NUM_OF_AP_SECTS : r.ap[i].alloc = "heap"
         /\ \A i \in 1..NUM_OF_DELAY_SECTS : r.dl[i].alloc = "heap"
    ELSE /\ delay_line_has_buffer(r.predelay)
         /\ \A i \in 1..4 : /\ allpass_has_buffer(r.input_ap[i])
                            /\ allpass_has_buffer(r.tank_ap[i])
                            /\ delay_line_has_buffer(r.tank_delay[i])

ZeroBlock == [i \in 1..FLUID_BUFSIZE |-> 0]
ImpulseBlock == [i \in 1..FLUID_BUFSIZE |-> IF i = 1 THEN Unit ELSE 0]
MixedBlock == [i \in 1..FLUID_BUFSIZE |-> IF i % 2 = 1 THEN -(Unit \div 2) ELSE Unit]
StaleLeft == [i \in 1..FLUID_BUFSIZE |-> Unit]
StaleRight == [i \in 1..FLUID_BUFSIZE |-> -(Unit \div 2)]

NoCall ==
    [op |-> "none", args |-> <<>>, pre |-> NULL, pre_left |-> <<>>,
     pre_right |-> <<>>, ret |-> "", prev_op |-> "none", built |-> <<>>]

NoRun == [from_reset |-> FALSE, params |-> <<>>, log |-> <<>>]

NoCalls == [new |-> 0, set |-> 0, on_model |-> 0]

ApiInit ==
    /\ revmodel = NULL
    /\ left_buf = ZeroBlock
    /\ right_buf = ZeroBlock
    /\ call = NoCall
    /\ ncalls = NoCalls
    /\ run = NoRun
    /\ prev_run = NoRun

--------------------------------------------------------------------------
(* The stand-alone delay line: any caller of the class *)

DlHist0 ==
    [op |-> "new", arg |-> 0, ret |-> 0, pre_out |-> 0, threw |-> FALSE,
     fresh |-> FALSE, fed |-> <<>>, n |-> 0]

\* no stand-alone filter exists
FltHist0 ==
    [kind |-> "none", op |-> "new", arg |-> 0, ret |-> 0, threw |-> FALSE,
     pre |-> <<>>, damp |-> <<>>, written |-> <<>>, n |-> 0]

FltIdle == flt = <<>> /\ flt_hist = FltHist0

DlInit == dl = delay_line_new /\ dl_hist = DlHist0 /\ FltIdle /\ ApiInit

\* the cursors are where the class contract wants them
DlCursorsValid ==
    /\ delay_line_has_buffer(dl)
    /\ dl.line_out \in 0..(delay_line_size(dl) - 1)
    /\ dl.line_in \in 0..(delay_line_size(dl) - 1)

DlSetBuffer ==
    \E length \in -1..MaxLen :
        /\ dl_hist.n < MaxDlOps
        /\ UNCHANGED <<api_vars, flt_vars>>
        /\ IF delay_line_set_buffer_throws(length)
           THEN /\ dl' = dl
                /\ dl_hist' = [dl_hist EXCEPT !.op = "set_buffer", !.arg = length,
                                   !.threw = TRUE, !.pre_out = dl.line_out,
                                   !.n = @ + 1]
           ELSE /\ dl' = delay_line_set_buffer(dl, length)
                /\ dl_hist' = [op |-> "set_buffer", arg |-> length, ret |-> 0,
                               pre_out |-> dl.line_out, threw |-> FALSE,
                               fresh |-> ~delay_line_has_buffer(dl),
                               fed |-> <<>>, n |-> dl_hist.n + 1]

DlProcess ==
    \E x \in Samples :
        /\ dl_hist.n < MaxDlOps
        /\ UNCHANGED <<api_vars, flt_vars>>
        /\ DlCursorsValid
        /\ dl' = delay_line_process(dl, x)
        /\ dl_hist' = [dl_hist EXCEPT !.op = "process", !.arg = x,
                           !.ret = dl'.last_output, !.pre_out = dl.line_out,
                           !.threw = FALSE, !.n = @ + 1,
                           !.fed = IF dl_hist.fresh THEN Append(@, x) ELSE @]

DlFillBuffer ==
    \E v \in Samples :
        /\ dl_hist.n < MaxDlOps
        /\ UNCHANGED <<api_vars, flt_vars>>
        /\ dl' = delay_line_fill_buffer(dl, v)
        /\ dl_hist' = [dl_hist EXCEPT !.op = "fill_buffer", !.arg = v,
                           !.pre_out = dl.line_out, !.threw = FALSE,
                           !.fresh = FALSE, !.fed = <<>>, !.n = @ + 1]

\* callers keep the cursors inside [0, N)
DlSetPositions ==
    \E i, o \in 0..(delay_line_size(dl) - 1) :
        /\ dl_hist.n < MaxDlOps
        /\ UNCHANGED <<api_vars, flt_vars>>
        /\ dl' = delay_line_set_positions(dl, i, o)
        /\ dl_hist' = [dl_hist EXCEPT !.op = "set_positions", !.arg = o,
                           !.pre_out = dl.line_out, !.threw = FALSE,
                           !.fresh = FALSE, !.fed = <<>>, !.n = @ + 1]

DlSetSingleTapPosition ==
    \E i \in 0..(delay_line_size(dl) - 1) :
        /\ dl_hist.n < MaxDlOps
        /\ UNCHANGED <<api_vars, flt_vars>>
        /\ dl' = delay_line_set_single_tap_position(dl, i)
        /\ dl_hist' = [dl_hist EXCEPT !.op = "set_single_tap_position", !.arg = i,
                           !.pre_out = dl.line_out, !.threw = FALSE,
                           !.fresh = FALSE, !.fed = <<>>, !.n = @ + 1]

DlNext ==
    \/ DlSetBuffer
    \/ DlProcess
    \/ DlFillBuffer
    \/ DlSetPositions
    \/ DlSetSingleTapPosition

SpecDelay == DlInit /\ [][DlNext]_vars

\* the coefficients callers give set_feedback and set_damp: inside and
\* above [0, 1]
Coefs == {Lit(2, 10), Lit(15, 10)}

\* tap offsets: negative, zero, inside and beyond the longest line
Taps == {-7, -4, -1, 0, 2, 5}

--------------------------------------------------------------------------
(* The stand-alone filters: any caller of fluid_reverb_allpass, of         *)
(* fluid_reverb_comb and of fluid_dattorro_read_tap                        *)

\* a filter of either class was constructed; its plain members hold what
\* the memory held
FltInit ==
    /\ dl = delay_line_new
    /\ dl_hist = DlHist0
    /\ ApiInit
    /\ \E kind \in {"allpass", "comb"} :
          /\ flt = (IF kind = "allpass" THEN allpass_new(Lit(3, 10))
                    ELSE comb_new(Lit(3, 10)))
          /\ flt_hist = [FltHist0 EXCEPT !.kind = kind]

\* the record of an operation that changed no cell
FltDid(op, arg) ==
    [flt_hist EXCEPT !.op = op, !.arg = arg, !.ret = 0, !.threw = FALSE,
                     !.pre = flt, !.n = @ + 1]

FltSetBuffer ==
    \E size \in 0..MaxLen :
        /\ flt_hist.n < MaxFltOps
        /\ UNCHANGED <<api_vars, dl_vars>>
        /\ IF delay_line_set_buffer_throws(size)
           THEN /\ flt' = flt
                /\ flt_hist' = [FltDid("set_buffer", size) EXCEPT !.threw = TRUE]
           ELSE /\ flt' = (IF flt_hist.kind = "allpass"
                           THEN allpass_set_buffer(flt, size)
                           ELSE comb_set_buffer(flt, size))
                /\ flt_hist' = [FltDid("set_buffer", size) EXCEPT !.written = <<>>]

FltFillBuffer ==
    \E value \in {0, Unit} :
        /\ flt_hist.n < MaxFltOps
        /\ UNCHANGED <<api_vars, dl_vars>>
        /\ flt' = (IF flt_hist.kind = "allpass"
                   THEN allpass_fill_buffer(flt, value)
                   ELSE comb_fill_buffer(flt, value))
        /\ flt_hist' = [FltDid("fill_buffer", value) EXCEPT !.written = <<>>]

FltSetFeedback ==
    \E value \in Coefs :
        /\ flt_hist.n < MaxFltOps
        /\ UNCHANGED <<api_vars, dl_vars>>
        /\ flt' = (IF flt_hist.kind = "allpass"
                   THEN allpass_set_feedback(flt, value)
                   ELSE comb_set_feedback(flt, value))
        /\ flt_hist' = FltDid("set_feedback", value)

FltSetMode ==
    \E mode_in \in {"FREEVERB", "SCHROEDER"} :
        /\ flt_hist.n < MaxFltOps
        /\ flt_hist.kind = "allpass"
        /\ UNCHANGED <<api_vars, dl_vars>>
        /\ flt' = allpass_set_mode(flt, mode_in)
        /\ flt_hist' = FltDid("set_mode", mode_in)

FltSetDamp ==
    \E value \in Coefs :
        /\ flt_hist.n < MaxFltOps
        /\ flt_hist.kind = "comb"
        /\ UNCHANGED <<api_vars, dl_vars>>
        /\ flt' = comb_set_damp(flt, value)
        /\ flt_hist' = [FltDid("set_damp", value) EXCEPT !.damp = <<value>>]

\* callers process once the buffer is allocated and, for an allpass, the
\* mode is chosen
FltProcess ==
    \E input \in Samples \ {0} :
        /\ flt_hist.n < MaxFltOps
        /\ UNCHANGED <<api_vars, dl_vars>>
        /\ delay_line_has_buffer(flt.delay)
        /\ IF flt_hist.kind = "allpass"
           THEN /\ flt.mode # "UNSET"
                /\ flt' = allpass_process(flt, input)
                /\ flt_hist' = [FltDid("process", input) EXCEPT
                                   !.ret = flt'.last_output,
                                   !.written = Append(@,
                                       flt'.delay.line[flt.delay.line_out + 1])]
           ELSE /\ flt' = comb_process(flt, input).comb
                /\ flt_hist' = [FltDid("process", input) EXCEPT
                                   !.ret = comb_process(flt, input).output,
                                   !.written = Append(@,
                                       flt'.delay.line[flt.delay.line_out + 1])]

\* fluid_dattorro_read_tap(flt.delay, tap): the line is a const reference
FltReadTap ==
    \E tap \in Taps :
        /\ flt_hist.op # "read_tap"
        /\ UNCHANGED <<api_vars, dl_vars>>
        /\ flt' = flt
        /\ flt_hist' = [flt_hist EXCEPT !.op = "read_tap", !.arg = tap,
                            !.ret = fluid_dattorro_read_tap(flt.delay, tap),
                            !.threw = FALSE, !.pre = flt]

FltNext ==
    \/ FltSetBuffer
    \/ FltFillBuffer
    \/ FltSetFeedback
    \/ FltSetMode
    \/ FltSetDamp
    \/ FltProcess
    \/ FltReadTap

SpecFilter == FltInit /\ [][FltNext]_vars

--------------------------------------------------------------------------
(* C1: after every process call on a delay line of length N whose cursors  *)
(* were inside [0, N), line_out is in [0, N), line_in equals line_out and  *)
(* line_out has advanced by exactly 1 modulo N.                            *)
C1_CursorAfterProcess ==
    dl_hist.op = "process" =>
        /\ dl.line_out \in 0..(delay_line_size(dl) - 1)
        /\ dl.line_in = dl.line_out
        /\ dl.line_out = (dl_hist.pre_out + 1) % delay_line_size(dl)

\* a process call that wrapped the cursor of a line longer than one cell
C1_Witness ==
    /\ dl_hist.op = "process"
    /\ delay_line_size(dl) >= 2
    /\ dl.line_out = 0
    /\ dl_hist.pre_out = delay_line_size(dl) - 1

--------------------------------------------------------------------------
(* The host: it owns one model handle and the two output buffers, and     *)
(* calls the entry points in any order                                    *)

\* what a freshly allocated object or array may hold
Garbage == {0, Lit(3, 10)}

\* sample rates in Hz, low enough to keep the buffers short: the lowest
\* rates at which no buffer of the model has length 0
ValidRate(t) ==
    IF t = "FREEVERB" THEN 196 ELSE IF t = "LEXVERB" THEN 230 ELSE 30

ReverbTypes == {"FREEVERB", "LEXVERB", "FDN"}

\* the arguments of a factory call; fail_at = k > 0: the k-th allocation fails
NewConfig(t, sr, f, g) ==
    [reverb_type |-> t, sample_rate_max |-> ValidRate(t), sample_rate |-> sr,
     fail_at |-> f, g |-> g]

AllNewConfigs ==
    {NewConfig(t, sr, f, g) :
        t \in ReverbTypes, sr \in {-1, 0, 100, 196, 230, 30}, f \in {0, 1, 12},
        g \in Garbage}

\* the factory calls of a host that configures models
NewConfigs ==
    {c \in AllNewConfigs :
        /\ c.sample_rate \in {-1, 0, ValidRate(c.reverb_type)}
              \/ (c.reverb_type = "FREEVERB" /\ c.sample_rate = 100)
              \/ (c.reverb_type = "LEXVERB" /\ c.sample_rate = 100
                     /\ c.fail_at = 0)
        /\ c.reverb_type # "FREEVERB" => c.g = 0}

\* the factory calls of a host that processes audio
AudioNewConfigs ==
    {c \in NewConfigs :
        /\ c.fail_at = 0
        /\ c.reverb_type = "FREEVERB" => c.g # 0
        /\ c.sample_rate = ValidRate(c.reverb_type)
              \/ (c.reverb_type = "LEXVERB" /\ c.sample_rate = 0)}

InRange ==
    [roomsize |-> Lit(5, 10), damping |-> Lit(5, 10), width |-> Unit,
     level |-> Lit(8, 10)]
AboveRange ==
    [roomsize |-> 2 * Unit, damping |-> 2 * Unit, width |-> 150 * Unit,
     level |-> 2 * Unit]
BelowRange ==
    [roomsize |-> -Unit, damping |-> -Unit, width |-> -Unit, level |-> -Unit]
Mono ==
    [roomsize |-> Lit(5, 10), damping |-> Lit(2, 10), width |-> 0, level |-> Unit]

FLUID_REVMODEL_SET_ALL ==
    FLUID_REVMODEL_SET_ROOMSIZE + FLUID_REVMODEL_SET_DAMPING
        + FLUID_REVMODEL_SET_WIDTH + FLUID_REVMODEL_SET_LEVEL

Masks == 0..FLUID_REVMODEL_SET_ALL

Stale == [left |-> StaleLeft, right |-> StaleRight]
Cleared == [left |-> ZeroBlock, right |-> ZeroBlock]

Counted(kind) ==
    IF kind = "new" THEN [ncalls EXCEPT !.new = @ + 1]
    ELSE IF kind = "set" THEN [ncalls EXCEPT !.set = @ + 1, !.on_model = @ + 1]
    ELSE [ncalls EXCEPT !.on_model = @ + 1]

\* the process is gone once a call has crashed it
Crashed == call.ret = "crashed"

Called(op, args, ret) ==
    [op |-> op, args |-> args, pre |-> revmodel, pre_left |-> left_buf,
     pre_right |-> right_buf, ret |-> ret, prev_op |-> call.op,
     built |-> <<>>]    \* the new-expression a factory call evaluated

CallNew(configs) ==
    \E c \in configs :
        /\ ~Crashed
        /\ revmodel = NULL
        /\ revmodel' = new_fluid_revmodel(c.sample_rate_max, c.sample_rate,
                                          c.reverb_type, c.fail_at, c.g)
        /\ call' = [Called("new", c, "") EXCEPT !.built =
                        <<factory_constructs(c.sample_rate_max, c.sample_rate,
                                             c.reverb_type)>>]
        /\ ncalls' = Counted("new")
        /\ run' = NoRun
        /\ prev_run' = NoRun
        /\ UNCHANGED <<left_buf, right_buf, dl_vars, flt_vars>>

\* the destructor of Lexverb releases its blocks
CallDelete ==
    \E outcome \in fluid_lexverb_release_outcomes(revmodel) :
        /\ ~Crashed
        /\ revmodel' = delete_fluid_revmodel(revmodel)
        /\ call' = Called("delete", <<>>, outcome)
        /\ run' = NoRun
        /\ prev_run' = NoRun
        /\ UNCHANGED <<left_buf, right_buf, ncalls, dl_vars, flt_vars>>

CallSet(masks, values) ==
    \E set \in masks, v \in values :
        /\ ~Crashed
        /\ revmodel' = fluid_revmodel_set(revmodel, set, v.roomsize, v.damping,
                                          v.width, v.level)
        /\ call' = Called("set", [set |-> set, v |-> v], "")
        /\ ncalls' = Counted("set")
        /\ run' = [run EXCEPT !.from_reset = FALSE]
        /\ UNCHANGED <<left_buf, right_buf, prev_run, dl_vars, flt_vars>>

\* what a process call leaves: r is what the entry point returned into
Processed(op, in, p, r) ==
    /\ ~Crashed
    /\ revmodel' = r.rev
    /\ left_buf' = r.left_out
    /\ right_buf' = r.right_out
    /\ call' = [Called(op, [in |-> in], "")
                   EXCEPT !.pre_left = p.left, !.pre_right = p.right]
    /\ ncalls' = Counted(op)
    /\ run' = [run EXCEPT !.log = Append(@,
                  [mix |-> op = "processmix", in |-> in, preset |-> p,
                   left |-> r.left_out, right |-> r.right_out])]
    /\ UNCHANGED <<prev_run, dl_vars, flt_vars>>

\* the host presets its output buffers (p) and calls processmix
CallProcessMix(blocks, presets) ==
    \E in \in blocks, p \in presets :
        Processed("processmix", in, p,
                  fluid_revmodel_processmix(revmodel, in, p.left, p.right))

\* the host presets its output buffers (p) and calls processreplace
CallProcessReplace(blocks, presets) ==
    \E in \in blocks, p \in presets :
        Processed("processreplace", in, p,
                  fluid_revmodel_processreplace(revmodel, in, p.left, p.right))

CallReset ==
    /\ ~Crashed
    /\ revmodel' = fluid_revmodel_reset(revmodel)
    /\ call' = Called("reset", <<>>, "")
    /\ ncalls' = Counted("reset")
    /\ prev_run' = run
    /\ run' = IF revmodel = NULL THEN NoRun
              ELSE [from_reset |-> TRUE, params |-> Params(revmodel),
                    log |-> <<>>]
    /\ UNCHANGED <<left_buf, right_buf, dl_vars, flt_vars>>

\* the line the k-th set_buffer call of the model's setup resizes
buffer_at(r, k) ==
    LET i == (k - 6) \div 2 + 1
        j == ((IF k <= 16 THEN k ELSE k - 16) + 1) \div 2
    IN  IF r.type = "FREEVERB"
        THEN (IF k <= 16
              THEN (IF k % 2 = 1 THEN r.combL[j].delay ELSE r.combR[j].delay)
              ELSE (IF k % 2 = 1 THEN r.allpassL[j].delay ELSE r.allpassR[j].delay))
        ELSE IF k = 1 THEN r.predelay
        ELSE IF k <= 5 THEN r.input_ap[k - 1].delay
        ELSE IF k % 2 = 0 THEN r.tank_ap[i].delay
        ELSE r.tank_delay[i]

\* the k-th allocation of a rate change can fail only where one is made:
\* FLUID_ARRAY in every fluid_lexverb_setup_blocks, and std::vector::resize
\* where the line grows
allocation_can_fail(r, sample_rate, k) ==
    /\ r # NULL
    /\ sample_rate > 0
    /\ \/ r.type = "LEXVERB"
       \/ r.type = "FREEVERB"
            /\ freeverb_buffer_length_at(k, sample_rate)
                   > delay_line_size(buffer_at(r, k))
       \/ r.type = "DATTORRO"
            /\ delay_line_size(buffer_at(
                   dattorro_setup_step([r EXCEPT !.cached_sample_rate = sample_rate],
                                       k, TRUE), k))
                   > delay_line_size(buffer_at(r, k))

\* samplerate_change of Lexverb releases its blocks first, when the rate
\* is positive
CallSamplerateChange(rates, fails) ==
    \E sample_rate \in rates, fail_at \in fails :
        \E outcome \in (IF sample_rate > 0
                        THEN fluid_lexverb_release_outcomes(revmodel)
                        ELSE {"returned"}) :
            LET r == fluid_revmodel_samplerate_change(revmodel, sample_rate,
                                                      fail_at, Lit(3, 10))
            IN  /\ ~Crashed
                /\ fail_at # 0 => allocation_can_fail(revmodel, sample_rate, fail_at)
                /\ revmodel' = r.rev
                /\ call' = Called("samplerate_change",
                                  [sample_rate |-> sample_rate,
                                   fail_at |-> fail_at],
                                  IF outcome = "crashed" THEN outcome ELSE r.ret)
                /\ ncalls' = Counted("samplerate_change")
                /\ run' = NoRun
                /\ prev_run' = NoRun
                /\ UNCHANGED <<left_buf, right_buf, dl_vars, flt_vars>>

Init == DlInit

\* a host that creates, configures and deletes models
Next ==
    \/ ncalls.new < MaxNew /\ CallNew(NewConfigs)
    \/ CallDelete
    \/ ncalls.set < MaxSets /\ ~(revmodel = NULL)
         /\ CallSet(Masks, {InRange, AboveRange, BelowRange})
    \/ ncalls.set = 0 /\ revmodel = NULL
         /\ CallSet({FLUID_REVMODEL_SET_ALL}, {InRange})

Spec == Init /\ [][Next]_vars

\* calls on the model after it was configured
Streamed == ncalls.on_model - ncalls.set

\* a host that creates one model, may configure it first, and then
\* processes blocks with it
NextProc ==
    \/ ncalls.new = 0 /\ CallNew(AudioNewConfigs)
    \/ ncalls.new = 1 /\ ncalls.on_model = 0
         /\ CallSet({FLUID_REVMODEL_SET_ALL}, {InRange, Mono})
    \/ ncalls.new = 1 /\ Streamed < MaxProcCalls
         /\ CallProcessMix({MixedBlock}, {Stale})
    \/ ncalls.new = 1 /\ Streamed < MaxProcCalls
         /\ CallProcessReplace({ZeroBlock, MixedBlock}, {Stale})
    \/ ncalls.new = 1 /\ Streamed < MaxProcCalls /\ CallReset

SpecProc == Init /\ [][NextProc]_vars

\* a host that creates one working model, may configure it first, and then
\* repeats runs from reset
NextDet ==
    \/ ncalls.new = 0
         /\ CallNew({c \in AudioNewConfigs : c.sample_rate > 0})
    \/ ncalls.new = 1 /\ ncalls.on_model = 0
         /\ CallSet({FLUID_REVMODEL_SET_ALL}, {InRange})
    \/ ncalls.new = 1 /\ Streamed < MaxDetCalls
         /\ CallProcessReplace({ImpulseBlock, MixedBlock}, {Cleared})
    \/ ncalls.new = 1 /\ Streamed < MaxDetCalls /\ CallReset

SpecDet == Init /\ [][NextDet]_vars

\* the rates a host may change a model of the given type to: not positive,
\* the rate it was built for, and another rate
RateChoices(r) ==
    {-1, 0} \cup
    (IF r = NULL THEN {30}
     ELSE IF r.type = "FREEVERB" THEN {30, 196, 230}
     ELSE IF r.type = "LEXVERB" THEN {230, 460}
     ELSE {30, 60})

\* the factory calls of a host that changes rates: those of a host that
\* processes audio, and those whose first allocation fails
RateNewConfigs ==
    AudioNewConfigs \cup
    {c \in NewConfigs :
        /\ c.fail_at = 1
        /\ c.sample_rate = ValidRate(c.reverb_type)
        /\ c.reverb_type = "FREEVERB" => c.g # 0} \cup
    {[NewConfig(t, ValidRate(t), 0, 0) EXCEPT !.sample_rate_max = 60] :
        t \in {"FDN", "OUT_OF_RANGE"}}

\* a host that creates one model, may configure it, and then processes
\* blocks, changes the sample rate, resets and deletes the model
NextRate ==
    \/ ncalls.new = 0 /\ CallNew(RateNewConfigs)
    \/ ncalls.new = 1 /\ ncalls.on_model = 0
         /\ CallSet({FLUID_REVMODEL_SET_ALL}, {InRange})
    \/ ncalls.new = 1 /\ Streamed < MaxRateCalls
         /\ CallProcessReplace({MixedBlock}, {Stale})
    \/ ncalls.new = 1 /\ Streamed < MaxRateCalls
         /\ CallSamplerateChange(RateChoices(revmodel), {0, 1, 7})
    \/ ncalls.new = 1 /\ Streamed < MaxRateCalls /\ CallReset
    \/ ncalls.new = 1 /\ CallDelete

SpecRate == Init /\ [][NextRate]_vars

--------------------------------------------------------------------------
(* Claims about the models behind the entry points *)

IsNull(r) == r = NULL

Min(a, b) == IF a < b THEN a ELSE b

AddBlocks(a, b) == [i \in 1..FLUID_BUFSIZE |-> a[i] + b[i]]

\* the bits of the mask, in the order of Params
ParamFlags ==
    <<FLUID_REVMODEL_SET_ROOMSIZE, FLUID_REVMODEL_SET_DAMPING,
      FLUID_REVMODEL_SET_WIDTH, FLUID_REVMODEL_SET_LEVEL>>

\* the declared ranges, in the order of Params
ParamMax == <<Unit, Unit, 100 * Unit, Unit>>

\* the replace-mode copy of the last call: the same model state, the same
\* input, its own output buffers
ReplaceCopy ==
    fluid_revmodel_processreplace(call.pre, call.args.in, StaleLeft, StaleRight)

(* C3: for every model and input block, process_mix into buffers preset   *)
(* to (L0, R0) ends in the same internal state as process_replace run on  *)
(* a copy of the model into (L', R'), with L = L0 + L' and R = R0 + R'.   *)
C3_MixIsReplacePlusAdd ==
    (call.op = "processmix" /\ ~IsNull(revmodel)) =>
        /\ revmodel = ReplaceCopy.rev
        /\ left_buf = AddBlocks(call.pre_left, ReplaceCopy.left_out)
        /\ right_buf = AddBlocks(call.pre_right, ReplaceCopy.right_out)

\* the same on the models whose buffers were all allocated
C3_MixIsReplacePlusAddWhenInitialized ==
    (call.op = "processmix" /\ ~IsNull(revmodel) /\ FullyInitialized(revmodel)) =>
        /\ revmodel = ReplaceCopy.rev
        /\ left_buf = AddBlocks(call.pre_left, ReplaceCopy.left_out)
        /\ right_buf = AddBlocks(call.pre_right, ReplaceCopy.right_out)

\* the blocks both runs were fed are the same up to block j
SameInputs(a, b, j) == \A m \in 1..j : a.log[m].in = b.log[m].in

\* the run since the last reset and the run since the reset before it
\* produced the same output for as long as they were fed the same input
RunsAgree ==
    \A j \in 1..Min(Len(run.log), Len(prev_run.log)) :
        SameInputs(run, prev_run, j) =>
            /\ run.log[j].left = prev_run.log[j].left
            /\ run.log[j].right = prev_run.log[j].right

(* C4: for every model, two runs that each start with reset and process   *)
(* the same input sequence with unchanged parameters produce exactly the  *)
(* same output: reset restores every state variable the output depends on. *)
C4_DeterministicFromReset ==
    (~IsNull(revmodel) /\ run.from_reset /\ prev_run.from_reset
        /\ run.params = prev_run.params) => RunsAgree

\* the same on the models other than Freeverb
C4_DeterministicFromResetPlates ==
    (~IsNull(revmodel) /\ revmodel.type # "FREEVERB" /\ run.from_reset
        /\ prev_run.from_reset /\ run.params = prev_run.params) => RunsAgree

(* C5: for every model, after set_params with any mask and any argument    *)
(* values each parameter named in the mask is stored inside its declared  *)
(* range: roomsize, damp and level in [0, 1], width in [0, 100].          *)
C5_ParametersClamped ==
    (call.op = "set" /\ ~IsNull(revmodel)) =>
        \A k \in 1..4 :
            HasFlag(call.args.set, ParamFlags[k]) =>
                /\ Params(revmodel)[k] >= 0
                /\ Params(revmodel)[k] <= ParamMax[k]

\* the coefficients set_params recomputes
Derived(r) ==
    IF r.type = "FREEVERB"
    THEN <<r.wet1, r.wet2,
           [i \in 1..numcombs |->
               <<r.combL[i].feedback, r.combL[i].damp1, r.combL[i].damp2,
                 r.combR[i].feedback, r.combR[i].damp1, r.combR[i].damp2>>]>>
    ELSE IF r.type = "LEXVERB" THEN <<r.wet1, r.wet2>>
    ELSE <<r.wet1, r.wet2, r.decay>>

\* an object of type t that holds the stored parameters p and nothing else
BlankWith(t, p) ==
    [(IF t = "FREEVERB" THEN freeverb_members(0)
      ELSE IF t = "LEXVERB" THEN lexverb_members ELSE dattorro_members(0))
        EXCEPT !.roomsize = p[1], !.damp = p[2], !.width = p[3], !.level = p[4]]

\* the coefficients as computed from the stored parameters p alone
DerivedFrom(t, p) ==
    Derived(IF t = "FREEVERB" THEN fluid_freeverb_revmodel_update(BlankWith(t, p))
            ELSE IF t = "LEXVERB" THEN fluid_lexverb_update(BlankWith(t, p))
            ELSE dattorro_update(BlankWith(t, p)))

(* C6: for every model, set_params leaves the stored value of every       *)
(* parameter whose bit is absent from the mask unchanged whatever argument *)
(* is passed for it (with mask 0 none of roomsize, damp, width, level      *)
(* changes), and the derived coefficients it recomputes are a function of *)
(* the stored values only.                                                *)
C6_MaskSelectivity ==
    (call.op = "set" /\ ~IsNull(revmodel)) =>
        /\ \A k \in 1..4 :
               ~HasFlag(call.args.set, ParamFlags[k]) =>
                   Params(revmodel)[k] = Params(call.pre)[k]
        /\ Derived(revmodel) = DerivedFrom(revmodel.type, Params(revmodel))

\* a set_params call with some but not all bits, whose arguments differ from
\* every stored value, on a model whose gains an earlier call had raised
C6_Witness ==
    /\ call.op = "set"
    /\ ~IsNull(revmodel)
    /\ call.args.set \in 1..(FLUID_REVMODEL_SET_ALL - 1)
    /\ call.args.v = AboveRange
    /\ call.pre.wet1 > 0
    /\ \A k \in 1..4 : Params(call.pre)[k] < Unit
    /\ Params(revmodel) # Params(call.pre)

IsPlate(r) == ~IsNull(r) /\ r.type \in {"DATTORRO", "LEXVERB"}

StoredInRange(r) == r.width \in 0..(100 * Unit) /\ r.level \in 0..Unit

(* C7: in every reachable state of a Dattorro or Lexverb model (after     *)
(* construction and any sequence of set_params calls), wet1 >= 0 and      *)
(* wet2 >= 0, the stored width being in [0, 100] and the level in [0, 1]. *)
C7_WetNonNegative ==
    (IsPlate(revmodel) /\ StoredInRange(revmodel)) =>
        revmodel.wet1 >= 0 /\ revmodel.wet2 >= 0

(* C7 as amended: in every reachable state of a Dattorro or Lexverb model *)
(* the stored width is in [0, 100], the stored level in [0, 1] and        *)
(* wet1 >= 0; wet2 >= 0 while the stored width is at most 1, and          *)
(* wet2 <= 0 once the stored width is 1 or more.                          *)
C7_WetSigns ==
    IsPlate(revmodel) =>
        /\ StoredInRange(revmodel)
        /\ revmodel.wet1 >= 0
        /\ revmodel.width <= Unit => revmodel.wet2 >= 0
        /\ revmodel.width >= Unit => revmodel.wet2 <= 0

\* a model set to a width above 1 with a positive level
C7_Witness ==
    /\ call.op = "set"
    /\ IsPlate(revmodel)
    /\ revmodel.width > Unit
    /\ revmodel.level > 0
    /\ revmodel.wet1 > 0
    /\ revmodel.wet2 < 0

AllZeroLine(d) == \A i \in 1..Len(d.line) : d.line[i] = 0

AllZeroSect(b) == b.out_data = 0 /\ \A i \in 1..Len(b.base) : b.base[i] = 0

\* every buffer cell, filter state and cached output of the model is zero
StateAllZero(r) ==
    IF r.type = "LEXVERB"
    THEN /\ r.damp_state_left = 0 /\ r.damp_state_right = 0
         /\ \A i \in 1..NUM_OF_AP_SECTS : AllZeroSect(r.ap[i])
         /\ \A i \in 1..NUM_OF_DELAY_SECTS : AllZeroSect(r.dl[i])
    ELSE /\ r.bandwidth_state = 0 /\ r.damp_state_left = 0
         /\ r.damp_state_right = 0
         /\ AllZeroLine(r.predelay) /\ r.predelay.last_output = 0
         /\ \A i \in 1..4 :
               /\ AllZeroLine(r.input_ap[i].delay) /\ r.input_ap[i].last_output = 0
               /\ AllZeroLine(r.tank_ap[i].delay) /\ r.tank_ap[i].last_output = 0
               /\ AllZeroLine(r.tank_delay[i]) /\ r.tank_delay[i].last_output = 0

ZeroBlockAfterReset ==
    /\ call.op = "processreplace"
    /\ call.prev_op = "reset"
    /\ call.args.in = ZeroBlock
    /\ IsPlate(revmodel)

(* C8: for Lexverb and Dattorro, in any state reached by any sequence of  *)
(* operations, reset followed by process_replace on a block of zero input *)
(* writes exactly zero to every left and right output sample, and the     *)
(* internal state stays all-zero.                                         *)
C8_ZeroInZeroOut ==
    ZeroBlockAfterReset =>
        /\ left_buf = ZeroBlock
        /\ right_buf = ZeroBlock
        /\ StateAllZero(revmodel)

\* the same on the models whose buffers were all allocated
C8_ZeroInZeroOutWhenInitialized ==
    (ZeroBlockAfterReset /\ FullyInitialized(revmodel)) =>
        /\ left_buf = ZeroBlock
        /\ right_buf = ZeroBlock
        /\ StateAllZero(revmodel)

MonoDattorro ==
    /\ ~IsNull(revmodel)
    /\ revmodel.type = "DATTORRO"
    /\ ncalls.set >= 1
    /\ revmodel.width = 0

(* C9: Dattorro with width = 0: after set_params wet1 = wet2 = wet/2,     *)
(* and process_replace produces a left output equal to the right output   *)
(* at every sample index.                                                 *)
C9_WidthZeroIsMono ==
    MonoDattorro =>
        /\ revmodel.wet1 = revmodel.wet2
        /\ revmodel.wet1 = FDiv(revmodel.level, 2 * Unit)
        /\ call.op = "processreplace" => left_buf = right_buf

\* a Dattorro set to width 0 wrote a block that is not silent
C9_Witness ==
    /\ MonoDattorro
    /\ revmodel.wet1 > 0
    /\ call.op = "processreplace"
    /\ \E i \in 1..FLUID_BUFSIZE : left_buf[i] # 0
    /\ \E i \in 1..FLUID_BUFSIZE : left_buf[i] # StaleLeft[i]

(* C10: construction is atomic for every reverb type: the factory returns *)
(* null whenever the sample rate is <= 0 or a buffer allocation fails,    *)
(* and every non-null model it returns is fully initialized.              *)
C10_ConstructionAtomic ==
    call.op = "new" =>
        /\ (call.args.sample_rate <= 0 \/ call.args.fail_at # 0) => IsNull(revmodel)
        /\ ~IsNull(revmodel) => FullyInitialized(revmodel)

\* the same for the types other than Lexverb
C10_ConstructionAtomicOthers ==
    (call.op = "new" /\ call.args.reverb_type # "LEXVERB") =>
        /\ (call.args.sample_rate <= 0 \/ call.args.fail_at # 0) => IsNull(revmodel)
        /\ ~IsNull(revmodel) => FullyInitialized(revmodel)

\* the call samplerate_change was made on a model of the given type
RateChangeOn(t) ==
    /\ call.op = "samplerate_change"
    /\ ~IsNull(call.pre)
    /\ call.pre.type = t
    /\ ~Crashed

(* C11: Lexverb does not support changing the sample rate: its            *)
(* samplerate_change returns FLUID_FAILED for every requested rate.       *)
C11_LexverbRateChangeFails ==
    RateChangeOn("LEXVERB") => call.ret = "FLUID_FAILED"

\* what the code does: it fails a rate that is not positive, and rebuilds
\* the buffers for a positive rate and returns FLUID_OK
C11_LexverbRateChangeRebuilds ==
    RateChangeOn("LEXVERB") =>
        IF call.args.sample_rate <= 0
        THEN call.ret = "FLUID_FAILED" /\ revmodel = call.pre
        ELSE IF call.args.fail_at # 0
        THEN call.ret = "FLUID_FAILED" /\ ~revmodel.valid
        ELSE /\ call.ret = "FLUID_OK"
             /\ FullyInitialized(revmodel)
             /\ \A i \in 1..NUM_OF_AP_SECTS :
                    Len(revmodel.ap[i].base) =
                        fluid_lexverb_ms_to_buf_length(LEX_REVERB_PARMS[i].length,
                                                       call.args.sample_rate)

\* the call was made with a null handle
OnNull == call.op # "none" /\ call.op # "new" /\ IsNull(call.pre)

\* the call left the caller's buffers as they were
BuffersUntouched == left_buf = call.pre_left /\ right_buf = call.pre_right

(* C12: no failure crosses the public boundary: every entry point returns *)
(* normally (processmix, processreplace, reset, set and delete to their   *)
(* caller, samplerate_change with FLUID_FAILED and the factory with null  *)
(* when the operation fails), and with a null handle the four void entry  *)
(* points do nothing and samplerate_change returns FLUID_FAILED.          *)
C12_NoFailureCrosses ==
    /\ ~Crashed
    /\ (call.op = "new" /\ call.args.fail_at # 0
           /\ call.args.reverb_type # "LEXVERB") => IsNull(revmodel)
    /\ (call.op = "samplerate_change"
           /\ (call.args.fail_at # 0 \/ call.args.sample_rate <= 0))
          => call.ret = "FLUID_FAILED"
    /\ OnNull => IsNull(revmodel) /\ BuffersUntouched
    /\ (OnNull /\ call.op = "samplerate_change") => call.ret = "FLUID_FAILED"

\* the same, but for the calls that release the blocks of a Lexverb whose
\* constructor returned before it initialised them
C12_NoFailureCrossesInitialized ==
    /\ Crashed =>
          /\ call.op \in {"delete", "samplerate_change"}
          /\ "crashed" \in fluid_lexverb_release_outcomes(call.pre)
          /\ ~FullyInitialized(call.pre)
    /\ (call.op = "new" /\ call.args.fail_at # 0
           /\ call.args.reverb_type # "LEXVERB") => IsNull(revmodel)
    /\ (call.op = "samplerate_change" /\ ~Crashed
           /\ (call.args.fail_at # 0 \/ call.args.sample_rate <= 0))
          => call.ret = "FLUID_FAILED"
    /\ OnNull => IsNull(revmodel) /\ BuffersUntouched
    /\ (OnNull /\ call.op = "samplerate_change") => call.ret = "FLUID_FAILED"

\* the lines of a Dattorro model: predelay, input_ap, tank_ap, tank_delay
DattorroLines(r) ==
    <<r.predelay>> \o [i \in 1..4 |-> r.input_ap[i].delay]
                   \o [i \in 1..4 |-> r.tank_ap[i].delay]
                   \o [i \in 1..4 |-> r.tank_delay[i]]

\* the times of the lines, in the order of DattorroLines
DattorroTimes ==
    <<DATTORRO_PREDELAY_US>> \o [i \in 1..4 |-> DATTORRO_DELAY_S[i]]
        \o [i \in 1..4 |-> DATTORRO_DELAY_S[5 + (i - 1) * 2]]
        \o [i \in 1..4 |-> DATTORRO_DELAY_S[6 + (i - 1) * 2]]

\* every buffer length and tap offset is the one computed for the rate
DattorroSizedFor(r, sample_rate) ==
    /\ \A n \in 1..13 :
          Len(DattorroLines(r)[n].line) =
              fluid_dattorro_seconds_to_samples(DattorroTimes[n], sample_rate)
    /\ \A t \in 1..14 :
          r.taps[t] = fluid_dattorro_seconds_to_samples(DATTORRO_TAP_S[t], sample_rate)

\* every cell, every cursor and both kinds of filter state are 0
DattorroCleared(r) ==
    /\ \A n \in 1..13 :
          /\ AllZeroLine(DattorroLines(r)[n])
          /\ DattorroLines(r)[n].line_in = 0
          /\ DattorroLines(r)[n].line_out = 0
    /\ r.bandwidth_state = 0
    /\ r.damp_state_left = 0
    /\ r.damp_state_right = 0

\* the method returned to the entry point (no std::bad_alloc left it)
DattorroRateChangeReturned ==
    ~dattorro_samplerate_change(call.pre, call.args.sample_rate,
                                call.args.fail_at).threw

RECURSIVE dattorro_sample_to(_, _, _, _)
\* the body of the loop of process<MIX> from statement f.pc up to, and not
\* including, statement stop
dattorro_sample_to(f, in, MIX, stop) ==
    IF f.pc >= stop THEN f
    ELSE dattorro_sample_to(
             [dattorro_process_stmt(f, f.pc, in, f.i, MIX) EXCEPT !.pc = @ + 1],
             in, MIX, stop)

\* the frame of the last process call of a Dattorro model when its loop
\* reaches sample i
DattorroAtSample(i) ==
    [dattorro_process_from(
         dattorro_frame(call.pre, call.pre_left, call.pre_right),
         SubSeq(call.args.in, 1, i - 1), call.op = "processmix")
     EXCEPT !.pc = 1]

\* that frame when sample i reaches statement stop
DattorroAtStmt(i, stop) ==
    dattorro_sample_to(DattorroAtSample(i), call.args.in,
                       call.op = "processmix", stop)

RECURSIVE lexverb_stmts_to(_, _, _)
\* fluid_lexverb_process_sample from statement f.pc up to, and not
\* including, statement stop
lexverb_stmts_to(f, input, stop) ==
    IF f.pc >= stop THEN f
    ELSE lexverb_stmts_to(
             [lexverb_process_stmt(f, f.pc, input) EXCEPT !.pc = @ + 1],
             input, stop)

\* the frame of the last process call of a Lexverb model when its loop
\* reaches sample i
LexverbAtSample(i) ==
    [(IF call.op = "processmix"
      THEN lexverb_processmix_from(
               lexverb_frame(call.pre, call.pre_left, call.pre_right),
               SubSeq(call.args.in, 1, i - 1))
      ELSE lexverb_processreplace_from(
               lexverb_frame(call.pre, call.pre_left, call.pre_right),
               SubSeq(call.args.in, 1, i - 1)))
     EXCEPT !.pc = 1]

\* that frame when sample i reaches statement stop
LexverbAtStmt(i, stop) ==
    lexverb_stmts_to(LexverbAtSample(i), call.args.in[i], stop)

\* the last call ran the sample loop of a model of the given type
ProcessedBy(t) ==
    /\ call.op \in {"processmix", "processreplace"}
    /\ ~IsNull(call.pre)
    /\ call.pre.type = t
    /\ FullyInitialized(call.pre)

\* Dattorro's left tank reads, at statement 8, the tank_delay[3].last_output
\* the previous sample left
DattorroLeftReadsPrevious ==
    ProcessedBy("DATTORRO") =>
        \A i \in 1..FLUID_BUFSIZE :
            DattorroAtStmt(i, 8).rev.tank_delay[4].last_output
                = DattorroAtSample(i).rev.tank_delay[4].last_output

\* Dattorro's right tank reads, at statement 14, the tank_delay[1].last_output
\* the previous sample left
DattorroRightReadsPrevious ==
    ProcessedBy("DATTORRO") =>
        \A i \in 1..FLUID_BUFSIZE :
            DattorroAtStmt(i, 14).rev.tank_delay[2].last_output
                = DattorroAtSample(i).rev.tank_delay[2].last_output

\* Lexverb's dl1 reads, at statement 3, the output the previous sample left
\* in AP9
LexverbDl1ReadsPrevious ==
    ProcessedBy("LEXVERB") =>
        \A i \in 1..FLUID_BUFSIZE :
            LexverbAtStmt(i, 3).rev.ap[10].out_data
                = LexverbAtSample(i).rev.ap[10].out_data

\* Lexverb's dl0 reads, at statement 10, the output the previous sample
\* left in AP4
LexverbDl0ReadsPrevious ==
    ProcessedBy("LEXVERB") =>
        \A i \in 1..FLUID_BUFSIZE :
            LexverbAtStmt(i, 10).rev.ap[5].out_data
                = LexverbAtSample(i).rev.ap[5].out_data

(* C14: in every per-sample step each cross-coupled feedback read         *)
(* observes the value produced during the previous sample, never one      *)
(* produced earlier in the same sample: Dattorro's left tank reading      *)
(* tank_delay[3].last_output, its right tank reading                      *)
(* tank_delay[1].last_output, Lexverb's dl1 reading AP9's output and its  *)
(* dl0 reading AP4's output.                                              *)
C14_CrossFeedbackPreviousSample ==
    /\ DattorroLeftReadsPrevious
    /\ DattorroRightReadsPrevious
    /\ LexverbDl1ReadsPrevious
    /\ LexverbDl0ReadsPrevious

\* the two reads that come before the stage they read has run
C14_FirstReadsPreviousSample ==
    DattorroLeftReadsPrevious /\ LexverbDl1ReadsPrevious

\* the line of the filter before the last operation, and its parts
PreLine == flt_hist.pre.delay.line
PreOut == flt_hist.pre.delay.line_out
PreCell == PreLine[PreOut + 1]

\* the last operation was process on a filter of the given kind
FltProcessed(kind) == flt_hist.kind = kind /\ flt_hist.op = "process"

\* the last process wrote v at the cursor, left the other cells alone and
\* advanced both cursors by one, wrapping at the end of the line
WroteAndAdvanced(v) ==
    /\ flt.delay.line = [PreLine EXCEPT ![PreOut + 1] = v]
    /\ flt.delay.line_out = (PreOut + 1) % Len(PreLine)
    /\ flt.delay.line_in = flt.delay.line_out

(* C15: for every comb filter, after any set_damp(v) damp1 = v and        *)
(* damp1 + damp2 = 1, through every later process, fill_buffer and        *)
(* set_feedback call.                                                     *)
C15_DampComplement ==
    (flt_hist.kind = "comb" /\ flt_hist.damp # <<>>) =>
        /\ flt.damp1 = flt_hist.damp[1]
        /\ flt.damp1 + flt.damp2 = Unit

\* a comb whose damping was set has processed sound since
C15_Witness ==
    /\ FltProcessed("comb")
    /\ flt_hist.damp # <<>>
    /\ flt_hist.pre.damp1 = flt_hist.damp[1]
    /\ PreCell # 0
    /\ flt.filterstore # 0

(* C16: allpass process, with bufout the cell at the cursor, x the input  *)
(* and g the feedback: in FREEVERB mode it returns bufout - x and writes  *)
(* x + bufout * g; in SCHROEDER mode it writes v = x + bufout * g and     *)
(* returns bufout - v * g; in both it writes at the cursor, advances the  *)
(* cursor by one with wrap-around and caches the result as last_output.   *)
C16_AllpassProcess ==
    FltProcessed("allpass") =>
        /\ flt_hist.ret =
              (IF flt_hist.pre.mode = "FREEVERB"
               THEN PreCell - flt_hist.arg
               ELSE PreCell - FMul(flt_hist.arg + FMul(PreCell, flt_hist.pre.feedback),
                                   flt_hist.pre.feedback))
        /\ WroteAndAdvanced(flt_hist.arg + FMul(PreCell, flt_hist.pre.feedback))
        /\ flt.last_output = flt_hist.ret
        /\ flt.mode = flt_hist.pre.mode
        /\ flt.feedback = flt_hist.pre.feedback

\* a SCHROEDER allpass processed a sample over a cell that held sound, at
\* the last cell of a line of two cells or more
C16_Witness ==
    /\ FltProcessed("allpass")
    /\ flt_hist.pre.mode = "SCHROEDER"
    /\ PreCell # 0
    /\ Len(PreLine) >= 2
    /\ PreOut = Len(PreLine) - 1
    /\ flt_hist.ret # PreCell - flt_hist.arg

(* C17: comb process returns the cell y at the cursor unchanged (the      *)
(* value written N calls earlier), updates filterstore to                 *)
(* y * damp2 + filterstore * damp1, writes x + filterstore * feedback     *)
(* with the updated filterstore at the cursor, and then advances the      *)
(* cursor by one with wrap-around.                                        *)
C17_CombProcess ==
    FltProcessed("comb") =>
        /\ flt_hist.ret = PreCell
        /\ Len(flt_hist.written) > Len(PreLine) =>
              flt_hist.ret =
                  flt_hist.written[Len(flt_hist.written) - Len(PreLine)]
        /\ flt.filterstore = FMul(PreCell, flt_hist.pre.damp2)
                               + FMul(flt_hist.pre.filterstore, flt_hist.pre.damp1)
        /\ WroteAndAdvanced(flt_hist.arg
                               + FMul(flt.filterstore, flt_hist.pre.feedback))

\* a comb returned what it had written N calls before, with a filterstore
\* that the call changed
C17_Witness ==
    /\ FltProcessed("comb")
    /\ Len(flt_hist.written) > Len(PreLine)
    /\ Len(PreLine) >= 2
    /\ PreCell # 0
    /\ flt.filterstore # flt_hist.pre.filterstore
    /\ flt_hist.pre.filterstore # 0

(* C18: the tap read on a delay line of length N returns the cell at      *)
(* index (line_out + k) mod N, the remainder non-negative, for every      *)
(* integer k: negative, positive or beyond N; it changes neither the      *)
(* cursors, the cells nor last_output.                                    *)
C18_TapRead ==
    (flt_hist.op = "read_tap" /\ Len(PreLine) > 0) =>
        /\ (PreOut + flt_hist.arg) % Len(PreLine) \in 0..(Len(PreLine) - 1)
        /\ flt_hist.ret = PreLine[((PreOut + flt_hist.arg) % Len(PreLine)) + 1]
        /\ flt = flt_hist.pre

\* a tap before the start of the line was read, on a line whose cells differ
C18_Witness ==
    /\ flt_hist.op = "read_tap"
    /\ Len(PreLine) >= 2
    /\ PreOut + flt_hist.arg < 0
    /\ flt_hist.ret # PreLine[-CRem(PreOut + flt_hist.arg, Len(PreLine)) + 1]
    /\ flt_hist.ret # 0

\* n is p / q rounded to the nearest integer, q > 0 (either way at a tie)
IsRound(n, p, q) == Abs(2 * (n * q - p)) <= q

\* n is max(1, round(p / q)), p >= 0 and q > 0
IsRoundAtLeastOne(n, p, q) ==
    \/ n >= 1 /\ IsRound(n, p, q)
    \/ n = 1 /\ 2 * p <= q

\* sample rates beside the ones the models here are built for; the products
\* of a time in microseconds and the rate stay inside 32-bit integers
HostRates == {1, 7, 30, 60, 441, 4000}

\* the last call built the buffers of a model of the given type
BuiltAs(t) ==
    /\ call.op \in {"new", "samplerate_change"}
    /\ ~Crashed
    /\ ~IsNull(revmodel)
    /\ revmodel.type = t
    /\ call.args.sample_rate > 0
    /\ call.op = "samplerate_change" => call.ret = "FLUID_OK"

(* C19: every Dattorro buffer length and tap offset is                    *)
(* max(1, round(seconds * sample_rate)), so every buffer has at least one *)
(* cell for every positive sample rate.                                   *)
C19_DattorroLengths ==
    BuiltAs("DATTORRO") =>
        /\ \A n \in 1..13 :
              /\ Len(DattorroLines(revmodel)[n].line) >= 1
              /\ IsRoundAtLeastOne(Len(DattorroLines(revmodel)[n].line),
                                   DattorroTimes[n] * call.args.sample_rate, 1000000)
        /\ \A t \in 1..14 :
              IsRoundAtLeastOne(revmodel.taps[t],
                                DATTORRO_TAP_S[t] * call.args.sample_rate, 1000000)
        /\ \A sample_rate \in HostRates :
              /\ \A n \in 1..13 :
                    IsRoundAtLeastOne(
                        fluid_dattorro_seconds_to_samples(DattorroTimes[n], sample_rate),
                        DattorroTimes[n] * sample_rate, 1000000)
              /\ \A t \in 1..14 :
                    IsRoundAtLeastOne(
                        fluid_dattorro_seconds_to_samples(DATTORRO_TAP_S[t], sample_rate),
                        DATTORRO_TAP_S[t] * sample_rate, 1000000)

\* a Dattorro model was rebuilt for a rate at which one line is a single
\* cell by the minimum alone and another has a length that was rounded up
C19_Witness ==
    /\ BuiltAs("DATTORRO")
    /\ call.op = "samplerate_change"
    /\ \E n \in 1..13 :
          /\ Len(DattorroLines(revmodel)[n].line) = 1
          /\ 2 * DattorroTimes[n] * call.args.sample_rate < 1000000
    /\ \E n \in 1..13 :
          Len(DattorroLines(revmodel)[n].line) * 1000000
              > DattorroTimes[n] * call.args.sample_rate
          /\ Len(DattorroLines(revmodel)[n].line) > 1

\* the k-th stage of a Lexverb model, in the order of LEX_REVERB_PARMS
LexverbStage(r, k) ==
    IF k <= NUM_OF_AP_SECTS THEN r.ap[k] ELSE r.dl[k - NUM_OF_AP_SECTS]

(* C20: every Lexverb stage buffer has length                             *)
(* round(ms * sample_rate / 1000) and never less than 1 for every         *)
(* positive sample rate, so the initial index 1 never points outside the  *)
(* buffer.                                                                *)
C20_LexverbLengths ==
    (BuiltAs("LEXVERB") /\ revmodel.valid) =>
        \A k \in 1..(NUM_OF_AP_SECTS + NUM_OF_DELAY_SECTS) :
            /\ IsRound(Len(LexverbStage(revmodel, k).base),
                       LEX_REVERB_PARMS[k].length * call.args.sample_rate, 100000)
            /\ Len(LexverbStage(revmodel, k).base) >= 1
            /\ LexverbStage(revmodel, k).out_ptr
                  \in 0..(Len(LexverbStage(revmodel, k).base) - 1)

\* what the code builds: the length is the product cut to an integer, which
\* is 0 for a short stage at a low rate, and the index is 1 whatever the
\* length
C20_LexverbLengthsTruncated ==
    (BuiltAs("LEXVERB") /\ revmodel.valid) =>
        \A k \in 1..(NUM_OF_AP_SECTS + NUM_OF_DELAY_SECTS) :
            /\ Len(LexverbStage(revmodel, k).base) * 100000
                  <= LEX_REVERB_PARMS[k].length * call.args.sample_rate
            /\ LEX_REVERB_PARMS[k].length * call.args.sample_rate
                  < (Len(LexverbStage(revmodel, k).base) + 1) * 100000
            /\ LexverbStage(revmodel, k).length = Len(LexverbStage(revmodel, k).base)
            /\ LexverbStage(revmodel, k).out_ptr = 1

\* a Lexverb model was built with a stage that has no cell
C20_EmptyStage ==
    /\ BuiltAs("LEXVERB")
    /\ revmodel.valid
    /\ \E k \in 1..(NUM_OF_AP_SECTS + NUM_OF_DELAY_SECTS) :
          Len(LexverbStage(revmodel, k).base) = 0

IsDattorro(r) == ~IsNull(r) /\ r.type = "DATTORRO"

\* the derived coefficients are the ones the stored parameters give
DattorroDerived(r) ==
    /\ r.decay = Lit(2, 10) + FMul(r.roomsize, Lit(78, 100))
    /\ r.wet1 = FMul(FDiv(r.level, Unit + FMul(r.width, Lit(2, 10))),
                     FDiv(r.width, 2 * Unit) + Lit(5, 10))
    /\ r.wet2 = FMul(FDiv(r.level, Unit + FMul(r.width, Lit(2, 10))),
                     FDiv(Unit - r.width, 2 * Unit))

(* C21: in every reachable state of a Dattorro model, from construction   *)
(* on, the derived coefficients match the stored parameters:              *)
(* decay = 0.2 + roomsize * 0.78, wet = level / (1 + width * 0.2),        *)
(* wet1 = wet * (width / 2 + 0.5), wet2 = wet * ((1 - width) / 2).        *)
C21_DattorroDerived ==
    (IsDattorro(revmodel) /\ ~Crashed) => DattorroDerived(revmodel)

\* the same from the first update() on; before it the model holds what the
\* constructor stored: all parameters 0 and decay 0.5
C21_DattorroDerivedOnceUpdated ==
    (IsDattorro(revmodel) /\ ~Crashed) =>
        \/ DattorroDerived(revmodel)
        \/ /\ Params(revmodel) = <<0, 0, 0, 0>>
           /\ revmodel.decay = Lit(5, 10)
           /\ revmodel.wet1 = 0
           /\ revmodel.wet2 = 0
           /\ ncalls.set = 0

\* the last call was reset on a Dattorro model
DattorroWasReset ==
    call.op = "reset" /\ IsDattorro(call.pre) /\ ~Crashed

\* the lengths of the 13 lines
DattorroLengths(r) == [n \in 1..13 |-> Len(DattorroLines(r)[n].line)]

\* what reset leaves alone: the parameters, the coefficients, the lengths
\* and the taps
DattorroConfig(r) ==
    <<Params(r), r.wet1, r.wet2, r.decay, r.bandwidth, r.cached_sample_rate,
      DattorroLengths(r), r.taps,
      [i \in 1..4 |-> <<r.input_ap[i].feedback, r.input_ap[i].mode>>],
      [i \in 1..4 |-> <<r.tank_ap[i].feedback, r.tank_ap[i].mode>>]>>

\* the cached outputs reset clears: those of the allpasses, of the lines
\* inside them and of the tank delays
DattorroOutputsCleared(r) ==
    /\ \A i \in 1..4 :
          /\ r.input_ap[i].last_output = 0
          /\ r.input_ap[i].delay.last_output = 0
          /\ r.tank_ap[i].last_output = 0
          /\ r.tank_ap[i].delay.last_output = 0
          /\ r.tank_delay[i].last_output = 0

(* C22: Dattorro reset, from any reachable state: afterwards every cell   *)
(* of the predelay, the 4 input allpasses, the 4 tank allpasses and the 4 *)
(* tank delays is 0, every cursor is 0, every cached last_output is 0 and *)
(* the bandwidth and both damping filter states are 0; the parameters,    *)
(* wet1, wet2, decay, the buffer lengths and the tap offsets are          *)
(* unchanged.                                                             *)
C22_DattorroReset ==
    DattorroWasReset =>
        /\ DattorroCleared(revmodel)
        /\ DattorroOutputsCleared(revmodel)
        /\ revmodel.predelay.last_output = 0
        /\ DattorroConfig(revmodel) = DattorroConfig(call.pre)

\* the same, except that the predelay keeps the last_output of its last
\* process call
C22_DattorroResetButPredelayOutput ==
    DattorroWasReset =>
        /\ DattorroCleared(revmodel)
        /\ DattorroOutputsCleared(revmodel)
        /\ revmodel.predelay.last_output = call.pre.predelay.last_output
        /\ DattorroConfig(revmodel) = DattorroConfig(call.pre)

\* a Dattorro model that held sound, cached outputs included, was reset
C22_Witness ==
    /\ DattorroWasReset
    /\ ~DattorroCleared(call.pre)
    /\ ~DattorroOutputsCleared(call.pre)
    /\ call.pre.predelay.last_output # 0
    /\ call.pre.level > 0

\* the last call was processmix or processreplace on a model
ProcessedOn(t) ==
    /\ call.op \in {"processmix", "processreplace"}
    /\ ~IsNull(call.pre)
    /\ call.pre.type = t
    /\ ~Crashed

\* what a Freeverb model is configured with: parameters, gains, the
\* coefficients and lengths of its 16 combs and 8 allpasses
FreeverbConfig(r) ==
    <<Params(r), r.wet1, r.wet2, r.gain,
      [i \in 1..numcombs |->
          <<Len(r.combL[i].delay.line), r.combL[i].feedback,
            r.combL[i].damp1, r.combL[i].damp2,
            Len(r.combR[i].delay.line), r.combR[i].feedback,
            r.combR[i].damp1, r.combR[i].damp2>>],
      [i \in 1..numallpasses |->
          <<Len(r.allpassL[i].delay.line), r.allpassL[i].feedback,
            r.allpassL[i].mode,
            Len(r.allpassR[i].delay.line), r.allpassR[i].feedback,
            r.allpassR[i].mode>>]>>

\* what a Lexverb model is configured with: parameters, gains, validity,
\* the length, coefficient and array of its 12 sections
LexverbConfig(r) ==
    <<Params(r), r.wet1, r.wet2, r.valid,
      [i \in 1..NUM_OF_AP_SECTS |->
          <<r.ap[i].length, r.ap[i].coef, r.ap[i].alloc, Len(r.ap[i].base)>>],
      [i \in 1..NUM_OF_DELAY_SECTS |->
          <<r.dl[i].length, r.dl[i].coef, r.dl[i].alloc, Len(r.dl[i].base)>>]>>

ModelConfig(r) ==
    IF r.type = "FREEVERB" THEN FreeverbConfig(r)
    ELSE IF r.type = "LEXVERB" THEN LexverbConfig(r)
    ELSE DattorroConfig(r)

(* C23: for every model, processmix and processreplace change no buffer   *)
(* length and none of roomsize, damp, width, level, wet1, wet2, decay;    *)
(* they change only cells, cursors, filter states and the output buffers. *)
C23_ProcessKeepsConfig ==
    \A t \in {"FREEVERB", "LEXVERB", "DATTORRO"} :
        ProcessedOn(t) => ModelConfig(revmodel) = ModelConfig(call.pre)

\* a block with sound went through a configured Dattorro model and changed
\* its cells and the output buffers
C23_Witness ==
    /\ ProcessedOn("DATTORRO")
    /\ FullyInitialized(call.pre)
    /\ call.pre.level > 0
    /\ revmodel # call.pre
    /\ <<left_buf, right_buf>> # <<call.pre_left, call.pre_right>>

\* the same for a Freeverb and for a Lexverb model
C23_WitnessFreeverb ==
    ProcessedOn("FREEVERB") /\ FullyInitialized(call.pre) /\ revmodel # call.pre

C23_WitnessLexverb ==
    ProcessedOn("LEXVERB") /\ FullyInitialized(call.pre) /\ revmodel # call.pre

\* the 24 delay lines of a Freeverb model: those of combL, combR,
\* allpassL, allpassR
FreeverbLines(r) ==
    [i \in 1..numcombs |-> r.combL[i].delay]
        \o [i \in 1..numcombs |-> r.combR[i].delay]
        \o [i \in 1..numallpasses |-> r.allpassL[i].delay]
        \o [i \in 1..numallpasses |-> r.allpassR[i].delay]

\* the delay elements of a Dattorro or Freeverb model
ModelLines(r) ==
    IF r.type = "FREEVERB" THEN FreeverbLines(r) ELSE DattorroLines(r)

\* both cursors of a line are positions of its buffer
CursorsInRange(d) ==
    /\ 0 <= d.line_in /\ d.line_in < Len(d.line)
    /\ 0 <= d.line_out /\ d.line_out < Len(d.line)

(* C24: after any serialized sequence of set_params, reset,               *)
(* samplerate_change (to higher or lower rates) and process calls on a    *)
(* successfully constructed Dattorro or Freeverb model, the cursor of     *)
(* every delay element lies in [0, N), N the current length of its line.  *)
C24_CursorsInRange ==
    (~IsNull(revmodel) /\ revmodel.type \in {"DATTORRO", "FREEVERB"}
        /\ ~Crashed) =>
        \A n \in DOMAIN ModelLines(revmodel) :
            CursorsInRange(ModelLines(revmodel)[n])

\* a rate change shortened a line to no more than where its cursor stood
C24_Witness ==
    /\ RateChangeOn("DATTORRO")
    /\ call.ret = "FLUID_OK"
    /\ \E n \in 1..13 :
          DattorroLines(call.pre)[n].line_out
              >= Len(DattorroLines(revmodel)[n].line)

\* the same on a Freeverb model
C24_WitnessFreeverb ==
    /\ RateChangeOn("FREEVERB")
    /\ call.ret = "FLUID_OK"
    /\ \E n \in 1..24 :
          FreeverbLines(call.pre)[n].line_out
              >= Len(FreeverbLines(revmodel)[n].line)

\* the frame of the last process call of a Freeverb model when its loop
\* reaches sample i
FreeverbAtSample(i) ==
    freeverb_process_from(
        freeverb_frame(call.pre, call.pre_left, call.pre_right),
        SubSeq(call.args.in, 1, i - 1), call.op = "processmix")

\* line b is line a after one process call: the single tap one cell on,
\* wrapped at the length
SteppedOnce(a, b) ==
    /\ Len(b.line) = Len(a.line)
    /\ b.line_out = (a.line_out + 1) % Len(a.line)
    /\ b.line_in = b.line_out

\* the lines of the model at each sample of the last block, and after it
DattorroLineTrace ==
    [i \in 1..(FLUID_BUFSIZE + 1) |-> DattorroLines(DattorroAtSample(i).rev)]

FreeverbLineTrace ==
    [i \in 1..(FLUID_BUFSIZE + 1) |-> FreeverbLines(FreeverbAtSample(i).rev)]

\* every sample of the last block moved each of Dattorro's 13 elements once
DattorroLockstep ==
    (ProcessedOn("DATTORRO") /\ FullyInitialized(call.pre)) =>
        \A tr \in {DattorroLineTrace} :
            /\ \A i \in 1..FLUID_BUFSIZE : \A n \in 1..13 :
                  SteppedOnce(tr[i][n], tr[i + 1][n])
            /\ tr[FLUID_BUFSIZE + 1] = DattorroLines(revmodel)

\* every sample of the last block moved each of Freeverb's 16 combs and 8
\* allpasses once
FreeverbLockstep ==
    (ProcessedOn("FREEVERB") /\ FullyInitialized(call.pre)) =>
        \A tr \in {FreeverbLineTrace} :
            /\ \A i \in 1..FLUID_BUFSIZE : \A n \in 1..24 :
                  SteppedOnce(tr[i][n], tr[i + 1][n])
            /\ tr[FLUID_BUFSIZE + 1] = FreeverbLines(revmodel)

\* the samples processed since the last reset
SamplesSinceReset == Len(run.log) * FLUID_BUFSIZE

\* n samples after a reset each Dattorro cursor is n mod the line's length
DattorroCursorsFromReset ==
    (IsDattorro(revmodel) /\ run.from_reset /\ ~Crashed) =>
        \A n \in 1..13 :
            LET d == DattorroLines(revmodel)[n]
            IN  /\ d.line_out = SamplesSinceReset % Len(d.line)
                /\ d.line_in = d.line_out

(* C25: lockstep advance.  Processing one sample calls process exactly    *)
(* once on each of Dattorro's 13 delay elements, and in Freeverb on each  *)
(* of the 16 combs and 8 allpasses; so n samples after a reset the cursor *)
(* of each Dattorro element equals n mod the length of its line.          *)
C25_Lockstep ==
    /\ DattorroLockstep
    /\ FreeverbLockstep
    /\ DattorroCursorsFromReset

\* two blocks after a reset: a Dattorro cursor that wrapped and stands
\* off 0
C25_Witness ==
    /\ ProcessedOn("DATTORRO")
    /\ run.from_reset
    /\ Len(run.log) = 2
    /\ \E n \in 1..13 :
          LET d == DattorroLines(revmodel)[n]
          IN  d.line_out # 0 /\ Len(d.line) < SamplesSinceReset

\* a Freeverb block during which a comb's cursor wrapped
C25_WitnessFreeverb ==
    /\ ProcessedOn("FREEVERB")
    /\ FullyInitialized(call.pre)
    /\ \E n \in 1..16 :
          FreeverbLines(revmodel)[n].line_out
              < FreeverbLines(call.pre)[n].line_out

RECURSIVE ProcessAll(_, _)
\* the line after one process call for each sample of xs, in order
ProcessAll(d, xs) ==
    IF xs = <<>> THEN d
    ELSE ProcessAll(delay_line_process(d, Head(xs)), Tail(xs))

\* the samples later process calls may write
LaterSamples == Samples \ {0}

\* whatever k + 1 samples the next process calls write, the last of these
\* calls returns what the tap at offset k reads now
TapPredictsProcess ==
    DlCursorsValid =>
        \A k \in 0..(delay_line_size(dl) - 1) :
            \A xs \in [1..(k + 1) -> LaterSamples] :
                ProcessAll(dl, xs).last_output = fluid_dattorro_read_tap(dl, k)

\* on a line processed ever since it was sized, the tap at offset k reads
\* the sample the process call N - k calls back wrote
TapObservesPast ==
    (DlCursorsValid /\ dl_hist.fed # <<>>) =>
        \A k \in 0..(delay_line_size(dl) - 1) :
            Len(dl_hist.fed) >= delay_line_size(dl) - k =>
                fluid_dattorro_read_tap(dl, k)
                    = dl_hist.fed[Len(dl_hist.fed) - (delay_line_size(dl) - k) + 1]

(* C26: tap/process agreement.  On a line of length N and for 0 <= k < N  *)
(* the tap read at offset k returns exactly the value the (k+1)-th        *)
(* subsequent process call on that line returns, whatever inputs the      *)
(* calls in between write; equivalently the tap at offset k observes the  *)
(* sample written N - k calls ago.                                        *)
C26_TapProcessAgreement ==
    TapPredictsProcess /\ TapObservesPast

\* a line of three cells, processed more often than it is long, whose
\* taps read three different samples with the cursor off the start
C26_Witness ==
    /\ dl_hist.op = "process"
    /\ delay_line_size(dl) = 3
    /\ Len(dl_hist.fed) > 3
    /\ dl.line_out # 0
    /\ Cardinality({fluid_dattorro_read_tap(dl, k) : k \in 0..2}) = 3

IsLexverb(r) == ~IsNull(r) /\ r.type = "LEXVERB"

\* no section of the model holds a buffer: every base pointer is null
LexverbReleased(r) ==
    /\ \A i \in 1..NUM_OF_AP_SECTS : r.ap[i].alloc = "null"
    /\ \A i \in 1..NUM_OF_DELAY_SECTS : r.dl[i].alloc = "null"

\* the last call is one the claim says ends with the model marked invalid
LexverbFailedSetup ==
    /\ IsLexverb(revmodel)
    /\ ~Crashed
    /\ \/ call.op = "new"
             /\ (call.args.sample_rate <= 0 \/ call.args.fail_at # 0)
       \/ call.op = "samplerate_change" /\ IsLexverb(call.pre)
             /\ call.args.sample_rate > 0 /\ call.args.fail_at # 0

\* the last call was made on a Lexverb model marked invalid
OnInvalidLexverb ==
    IsLexverb(call.pre) /\ ~call.pre.valid /\ call.op # "new"

\* processing and reset on an invalid model change nothing
InvalidLexverbInert ==
    (OnInvalidLexverb /\ ~Crashed) =>
        /\ call.op \in {"processmix", "processreplace"} =>
              revmodel = call.pre /\ BuffersUntouched
        /\ call.op = "reset" => revmodel = call.pre

\* a successful samplerate_change makes an invalid model valid
InvalidLexverbRevived ==
    (OnInvalidLexverb /\ ~Crashed /\ call.op = "samplerate_change"
        /\ call.ret = "FLUID_OK") =>
        revmodel.valid /\ FullyInitialized(revmodel)

(* C27: a Lexverb model is marked invalid (valid = false, all buffers     *)
(* released) when it is constructed with a sample rate <= 0 or when any   *)
(* allocation fails in construction or in samplerate_change; while        *)
(* invalid, processmix, processreplace and reset change neither its state *)
(* nor the output buffers; a later successful samplerate_change makes it  *)
(* valid again.                                                           *)
C27_LexverbInvalid ==
    /\ ~Crashed
    /\ LexverbFailedSetup => ~revmodel.valid /\ LexverbReleased(revmodel)
    /\ InvalidLexverbInert
    /\ InvalidLexverbRevived

\* the same, but for the model constructed with a rate <= 0, whose block
\* pointers nothing has written
C27_LexverbInvalidOnceInitialized ==
    /\ Crashed => OnInvalidLexverb /\ ~LexverbReleased(call.pre)
    /\ LexverbFailedSetup =>
          /\ ~revmodel.valid
          /\ LexverbReleased(revmodel)
                \/ (call.op = "new" /\ call.args.sample_rate <= 0)
    /\ InvalidLexverbInert
    /\ InvalidLexverbRevived

\* an allocation failed in samplerate_change on a working model
C27_WitnessFailedChange ==
    /\ LexverbFailedSetup
    /\ call.op = "samplerate_change"
    /\ call.pre.valid
    /\ ~revmodel.valid /\ LexverbReleased(revmodel)

\* a model invalid since a failed allocation was made valid again
C27_WitnessRevived ==
    /\ OnInvalidLexverb /\ ~Crashed
    /\ LexverbReleased(call.pre)
    /\ call.op = "samplerate_change"
    /\ revmodel.valid

\* a block was processed on an invalid model
C27_WitnessInert ==
    /\ OnInvalidLexverb /\ ~Crashed
    /\ call.op = "processreplace"
    /\ \E i \in 1..FLUID_BUFSIZE : call.args.in[i] # 0

\* samplerate_change with a rate that is not positive was called on a
\* model of type t
BadRateChangeOn(t) ==
    RateChangeOn(t) /\ call.args.sample_rate <= 0

\* a samplerate_change of a Freeverb model whose first set_buffer call is
\* given a length that is not positive
FirstSetBufferRaised ==
    /\ RateChangeOn("FREEVERB")
    /\ delay_line_set_buffer_throws(
           freeverb_buffer_length_at(1, call.args.sample_rate))

(* C28: samplerate_change with a rate <= 0 on a Dattorro or Lexverb model *)
(* returns FLUID_FAILED and leaves the whole state unchanged; set_buffer  *)
(* of a delay line with a length <= 0 raises before it modifies the line, *)
(* the cursors or last_output.                                            *)
C28_BadArgumentsChangeNothing ==
    /\ \A t \in {"DATTORRO", "LEXVERB"} :
          BadRateChangeOn(t) =>
              call.ret = "FLUID_FAILED" /\ revmodel = call.pre
    /\ FirstSetBufferRaised =>
          /\ call.ret = "FLUID_FAILED"
          /\ FreeverbLines(revmodel) = FreeverbLines(call.pre)

\* a rate of 0 or less was refused by a Dattorro model that holds sound
C28_Witness ==
    /\ BadRateChangeOn("DATTORRO")
    /\ ~DattorroCleared(call.pre)
    /\ call.pre.level > 0

\* the same on a Lexverb model that holds sound
C28_WitnessLexverb ==
    /\ BadRateChangeOn("LEXVERB")
    /\ call.pre.valid
    /\ \E i \in 1..NUM_OF_AP_SECTS : call.pre.ap[i].out_data # 0

\* set_buffer raised on a line that holds sound and whose cursor is off 0
C28_WitnessSetBuffer ==
    /\ FirstSetBufferRaised
    /\ FreeverbLines(call.pre)[1].line_out # 0
    /\ \E i \in DOMAIN FreeverbLines(call.pre)[1].line :
          FreeverbLines(call.pre)[1].line[i] # DC_OFFSET

\* a stand-alone line: a set_buffer that raised left the line as it was
C28_SetBufferRaisesFirst ==
    [][(dl_hist'.op = "set_buffer" /\ dl_hist'.threw
          /\ dl_hist'.n = dl_hist.n + 1) => dl' = dl]_vars

\* the last call was set, with the roomsize bit, on a model of type t
RoomsizeSetOn(t) ==
    /\ call.op = "set"
    /\ ~IsNull(call.pre)
    /\ call.pre.type = t
    /\ HasFlag(call.args.set, FLUID_REVMODEL_SET_ROOMSIZE)

\* the feedback of each of the 16 combs lies in [lo, hi]
CombFeedbackWithin(r, lo, hi) ==
    \A i \in 1..numcombs :
        /\ lo <= r.combL[i].feedback /\ r.combL[i].feedback <= hi
        /\ lo <= r.combR[i].feedback /\ r.combR[i].feedback <= hi

(* C29: after any set_params call that carries the roomsize bit, whatever *)
(* the roomsize argument, the feedback of every Freeverb comb lies in     *)
(* [0.7, 0.98]; in every reachable state of a Dattorro model the decay    *)
(* lies in [0.2, 0.98].                                                   *)
C29_FeedbackBounded ==
    /\ RoomsizeSetOn("FREEVERB") =>
          CombFeedbackWithin(revmodel, Lit(7, 10), Lit(98, 100))
    /\ IsDattorro(revmodel) =>
          Lit(2, 10) <= revmodel.decay /\ revmodel.decay <= Lit(98, 100)

\* a roomsize above 1 was set on a Freeverb model and clipped
C29_Witness ==
    /\ RoomsizeSetOn("FREEVERB")
    /\ call.args.v.roomsize > Unit
    /\ revmodel.combL[1].feedback = Lit(98, 100)

\* a roomsize below 0 and one above 1 were set on a Dattorro model
C29_WitnessDattorroLow ==
    /\ RoomsizeSetOn("DATTORRO")
    /\ call.args.v.roomsize < 0
    /\ revmodel.decay = Lit(2, 10)

C29_WitnessDattorroHigh ==
    /\ RoomsizeSetOn("DATTORRO")
    /\ call.args.v.roomsize > Unit
    /\ revmodel.decay = Lit(98, 100)

\* the last call was the factory, asked for reverb type t
NewOf(t) == call.op = "new" /\ call.args.reverb_type = t

\* the factory evaluated `new class(args)`
Built(class, args) == call.built = <<[class |-> class, args |-> args]>>

\* every allocation succeeded at a rate the model can be built for
NewCouldSucceed ==
    /\ call.args.fail_at = 0
    /\ call.args.sample_rate = ValidRate(call.args.reverb_type)

(* C30: the factory's dispatch is total: reverb type FREEVERB selects the *)
(* Freeverb model, LEXVERB the Lexverb model, and every other type value  *)
(* selects the FDN model, which is constructed from both sample_rate_max  *)
(* and sample_rate.                                                       *)
C30_FactoryDispatch ==
    call.op = "new" =>
        /\ NewOf("FREEVERB") =>
              /\ Built("fluid_revmodel_freeverb", <<call.args.sample_rate>>)
              /\ IsNull(revmodel) \/ revmodel.type = "FREEVERB"
        /\ NewOf("LEXVERB") =>
              /\ Built("fluid_revmodel_lexverb", <<call.args.sample_rate>>)
              /\ IsLexverb(revmodel)
        /\ call.args.reverb_type \notin {"FREEVERB", "LEXVERB"} =>
              /\ Built("fluid_revmodel_fdn",
                       <<call.args.sample_rate_max, call.args.sample_rate>>)
              /\ IsNull(revmodel) \/ IsDattorro(revmodel)
        /\ NewCouldSucceed => ~IsNull(revmodel)

\* a type value that names no model, and a maximum rate other than the
\* rate: the third model was built
C30_Witness ==
    /\ NewOf("OUT_OF_RANGE")
    /\ call.args.sample_rate_max # call.args.sample_rate
    /\ IsDattorro(revmodel)

==============================================================================
